---- MODULE Spec2Model ----
(***************************************************************************)
(* Test-attempt lifecycle of the assessment backend (backend/app/api/     *)
(* tests.py): configuration resolver with its TTL cache, eligibility      *)
(* evaluator, attempt materializer, answer ledger and attempt finalizer,  *)
(* together with the administrator operations on configurations and test  *)
(* assignments that they read.                                            *)
(*                                                                         *)
(* Handlers are `async def` bodies without suspension points, so inside   *)
(* one server process a handler runs to completion; several server        *)
(* processes share the database and interleave at the granularity of the  *)
(* database round trips.  Each process has its own configuration cache.   *)
(* The ORM is taken as a faithful persistence layer: a commit writes the  *)
(* attributes the handler assigned.                                        *)
(***************************************************************************)
EXTENDS Integers, Sequences, FiniteSets, TLC

(***************************************************************************)
(* Bounds of the model                                                     *)
(***************************************************************************)
MaxAttemptRows == 3   \* rows of test_attempts
MaxTime == 30         \* the clock stops here
MaxAnswers == 4       \* answer ids handed out in the ledger specification
MaxFrameAnswers == 1  \* answer ids handed out in the other specifications
MaxQuotaAnswers == 3  \* answer ids handed out in the quota specification
MaxScenarios == 3     \* scenarios of a drawn SJT configuration
MaxRoles == 2         \* roles of a drawn JDT configuration
MaxConfigRows == 2    \* rows of configurations
MaxVersion == 3       \* update_configuration stops raising a version here

(***************************************************************************)
(* Program constants                                                       *)
(***************************************************************************)
MAX_ATTEMPTS_DEFAULT == 1
CONFIG_TTL_SECONDS == 30
MAX_FOLLOW_UP_CAP == 5
LIST_LIMIT == 100

(***************************************************************************)
(* Python values                                                           *)
(***************************************************************************)
\* Optional[T]: None is the empty sequence, a value x is <<x>>.
Nothing == << >>
Some(x) == <<x>>
IsSome(o) == o # Nothing
The(o) == o[1]

\* dict.get(k) with a default, and d[k] = v.
Get(d, k, default) == IF k \in DOMAIN d THEN d[k] ELSE default
Put(d, k, v) == [x \in (DOMAIN d) \cup {k} |-> IF x = k THEN v ELSE d[x]]
EmptyDict == << >>

\* `x or y` on integers: 0 (and an absent key, read as 0) is falsy.
IntOr(x, y) == IF x # 0 THEN x ELSE y

Min(a, b) == IF a < b THEN a ELSE b
Max(a, b) == IF a > b THEN a ELSE b

\* seq[:n], Python's slice: a negative n counts from the end.
Slice(seq, n) ==
  LET k == IF n >= 0 THEN Min(n, Len(seq)) ELSE Max(0, Len(seq) + n)
  IN  SubSeq(seq, 1, k)

(***************************************************************************)
(* Strings as sequences of code points, so that str() and the ordering of  *)
(* strings are computed, not assumed.                                      *)
(***************************************************************************)
RECURSIVE Digits(_)
Digits(n) == IF n < 10 THEN <<48 + n>> ELSE Digits(n \div 10) \o <<48 + (n % 10)>>

\* str(n) of an int.
IntStr(n) == IF n < 0 THEN <<45>> \o Digits(0 - n) ELSE Digits(n)

\* a < b on str: lexicographic by code point.
RECURSIVE StrLess(_, _)
StrLess(a, b) ==
  IF b = << >> THEN FALSE
  ELSE IF a = << >> THEN TRUE
  ELSE IF a[1] # b[1] THEN a[1] < b[1]
  ELSE StrLess(Tail(a), Tail(b))

\* A JSON scalar used as a scenario id: an int, a str, or absent (None).
IntId(n) == [kind |-> "int", n |-> n, s |-> << >>]
StrId(s) == [kind |-> "str", n |-> 0, s |-> s]
NoneId == [kind |-> "none", n |-> 0, s |-> << >>]

\* str(x) of such a value; str(None) = "None".
PyStr(v) ==
  IF v.kind = "int" THEN IntStr(v.n)
  ELSE IF v.kind = "str" THEN v.s
  ELSE <<78, 111, 110, 101>>

(***************************************************************************)
(* Principals                                                              *)
(***************************************************************************)
\* Candidates c1, c2, administrator a1 and superadmin sa of tenant t1,
\* candidate d1 of tenant t2, superadmin su without a tenant.
Users == {"c1", "c2", "a1", "sa", "d1", "su"}
Role(u) == IF u = "a1" THEN "admin" ELSE IF u \in {"sa", "su"} THEN "superadmin" ELSE "candidate"
NoTenant == "None"
TenantOf(u) == IF u = "d1" THEN "t2" ELSE IF u = "su" THEN NoTenant ELSE "t1"
Procs == {"p1", "p2"}
TestTypes == {"SJT", "JDT"}

\* test_type.upper() and test_type.lower() on the spellings the model draws.
Upper(t) == IF t \in {"sjt", "SJT"} THEN "SJT" ELSE IF t \in {"jdt", "JDT"} THEN "JDT" ELSE "XYZ"
Lower(t) == IF t \in {"sjt", "SJT"} THEN "sjt" ELSE IF t \in {"jdt", "JDT"} THEN "jdt" ELSE "xyz"

VARIABLES
  now,          \* datetime.utcnow(), in seconds
  autoAssign,   \* AUTO_ASSIGN_ON_AVAILABILITY is one of '1', 'true', 'True'
  configs,      \* table configurations, in order of creation
  cache,        \* cache[p]: _CONFIG_CACHE of server process p
  assignments,  \* table test_assignments
  attempts,     \* table test_attempts, in order of creation
  req,          \* req[p]: the request process p is serving, with its locals
  resp,         \* the last response any process sent
  uuids         \* how many answer ids uuid.uuid4() has handed out

vars == <<now, autoAssign, configs, cache, assignments, attempts, req, resp, uuids>>

(***************************************************************************)
(* Configuration Resolver                                                  *)
(***************************************************************************)
\* A row of table configurations, written at time 0 (TimestampMixin: every
\* later write sets updated_at).
Configuration(id, tenant_id, config_type, scope, config_data, version) ==
  [id |-> id, tenant_id |-> tenant_id, config_type |-> config_type, scope |-> scope,
   is_active |-> TRUE, version |-> version, config_data |-> config_data,
   updated_at |-> 0]

_cache_key(tenant_id, test_type) ==
  <<IF tenant_id = NoTenant THEN "system" ELSE tenant_id, Upper(test_type)>>

\* .order_by(created_at.desc()).first() over the rows whose index is in S.
LatestRow(rows, S) ==
  IF S = {} THEN Nothing ELSE Some(rows[CHOOSE i \in S : \A j \in S : j <= i])

\* A query that does not filter the tenant's rows.
QueryAnyTenant(rows, tenant_id, test_type) ==
  LatestRow(rows, {i \in 1..Len(rows) :
                     rows[i].config_type = Lower(test_type) /\ rows[i].is_active})

\* The database part of _get_config: tenant row first, system row second.
QueryActiveConfig(rows, tenant_id, test_type) ==
  LET active == {i \in 1..Len(rows) :
                   rows[i].config_type = Lower(test_type) /\ rows[i].is_active}
      own == IF tenant_id # NoTenant
             THEN LatestRow(rows, {i \in active : rows[i].tenant_id = tenant_id})
             ELSE Nothing
  IN  IF IsSome(own) THEN own
      ELSE LatestRow(rows, {i \in active : rows[i].scope = "system"})

\* A cache that still serves an entry at the instant of its expiry.
CacheFreshAtExpiry(c, key, t) == key \in DOMAIN c /\ c[key].expires_at >= t

\* Whether a cache entry is served: present and not yet expired.
CacheFresh(c, key, t) == key \in DOMAIN c /\ c[key].expires_at > t

\* A resolver that also caches "not configured": the entry of a lookup that
\* found nothing holds the row [id |-> 0] and is served as None until it
\* expires.
_get_config_caching_misses(c, t, rows, tenant_id, test_type) ==
  LET key == _cache_key(tenant_id, test_type)
      cfg == QueryActiveConfig(rows, tenant_id, test_type)
  IN  IF CacheFresh(c, key, t)
      THEN [config |-> IF c[key].config.id = 0 THEN Nothing ELSE Some(c[key].config),
            cache |-> c]
      ELSE [config |-> cfg,
            cache |-> Put(c, key, [config |-> IF IsSome(cfg) THEN The(cfg) ELSE [id |-> 0],
                                   expires_at |-> t + CONFIG_TTL_SECONDS])]

\* _get_config on the cache c of the serving process at time t:
\* the configuration found (or None) and the cache afterwards.
_get_config(c, t, rows, tenant_id, test_type) ==
  LET key == _cache_key(tenant_id, test_type)
      cfg == QueryActiveConfig(rows, tenant_id, test_type)
  IN  IF CacheFresh(c, key, t)
      THEN [config |-> Some(c[key].config), cache |-> c]
      ELSE [config |-> cfg,
            cache |-> IF IsSome(cfg)
                      THEN Put(c, key, [config |-> The(cfg),
                                        expires_at |-> t + CONFIG_TTL_SECONDS])
                      ELSE c]

(***************************************************************************)
(* Eligibility Evaluator                                                   *)
(***************************************************************************)
\* A row of table test_assignments; ux_user_test_assignment makes
\* (user_id, test_type) a key of the table.
TestAssignment(user_id, test_type, max_attempts, custom_config) ==
  [user_id |-> user_id, test_type |-> test_type, status |-> "assigned",
   max_attempts |-> max_attempts, custom_config |-> custom_config]

\* db.query(TestAssignment).filter(user_id, test_type).first()
AssignmentOf(asg, u, tt) ==
  LET found == {a \in asg : a.user_id = u /\ a.test_type = tt}
  IN  IF found = {} THEN Nothing ELSE Some(CHOOSE a \in found : TRUE)

\* The ids of the attempts of (u, tt) with the given status.
AttemptsWithStatus(att, u, tt, st) ==
  {i \in 1..Len(att) : att[i].user_id = u /\ att[i].test_type = tt /\ att[i].status = st}

\* attempts_used: completed attempts only.
AttemptsUsed(att, u, tt) == Cardinality(AttemptsWithStatus(att, u, tt, "completed"))

HasInProgress(att, u, tt) == AttemptsWithStatus(att, u, tt, "in_progress") # {}

\* An evaluator that forgets the attempt limit.
CanStartNoLimit(assigned, configured, attempts_used, max_attempts, has_in_progress) ==
  assigned /\ configured /\ ~has_in_progress

\* can_start of the availability response.
CanStart(assigned, configured, attempts_used, max_attempts, has_in_progress) ==
  assigned /\ configured /\ attempts_used < max_attempts /\ ~has_in_progress

\* An evaluator that looks at the assignment row alone.
IsAssignedByRow(u, assignment) == IsSome(assignment)

\* Whether the caller's assignment lookup counts as assigned.
IsAssigned(u, assignment) == Role(u) # "candidate" \/ IsSome(assignment)

\* An evaluator that creates an assignment whether or not one was found.
AutoAssignsAlways(u, found, configured, auto) ==
  Role(u) = "candidate" /\ configured /\ auto

\* Whether get_test_availability creates an assignment for the caller.
AutoAssigns(u, found, configured, auto) ==
  Role(u) = "candidate" /\ ~IsSome(found) /\ configured /\ auto

\* The body of get_test_availability for a valid test type tt, given the
\* configuration the resolver returned: the response and the assignment table
\* afterwards.
get_test_availability(cfg, u, tt, asg, att, auto) ==
  LET configured == IsSome(cfg)
      found == IF Role(u) = "candidate" THEN AssignmentOf(asg, u, tt) ELSE Nothing
      create == AutoAssigns(u, found, configured, auto)
      new_assignment == TestAssignment(u, tt, MAX_ATTEMPTS_DEFAULT, EmptyDict)
      assignment == IF create THEN Some(new_assignment) ELSE found
      assigned == IsAssigned(u, assignment)
      assignment_status ==
        IF Role(u) # "candidate" THEN Some("admin_preview")
        ELSE IF IsSome(assignment) THEN Some(The(assignment).status)
        ELSE Nothing
      max_attempts ==
        IF IsSome(found) THEN IntOr(The(found).max_attempts, MAX_ATTEMPTS_DEFAULT)
        ELSE MAX_ATTEMPTS_DEFAULT
      attempts_used == AttemptsUsed(att, u, tt)
      has_in_progress == HasInProgress(att, u, tt)
      custom == IF IsSome(assignment) THEN The(assignment).custom_config ELSE EmptyDict
      cfg_data == IF configured THEN The(cfg).config_data ELSE EmptyDict
      scenarios == Get(cfg_data, "scenarios", << >>)
      settings == Get(cfg_data, "settings", EmptyDict)
      assigned_question_count ==
        IF tt = "SJT" /\ DOMAIN custom # {}
        THEN Some(Len(Get(custom, "sjt_scenario_ids", << >>)))
        ELSE IF configured
        THEN Some(IntOr(Get(settings, "numberOfQuestions", 0), Len(scenarios)))
        ELSE Nothing
  IN  [response |->
         [status_code |-> 200, op |-> "availability", user |-> u, test_type |-> tt,
          assigned |-> assigned, configured |-> configured,
          attempts_used |-> attempts_used, max_attempts |-> max_attempts,
          can_start |-> CanStart(assigned, configured, attempts_used, max_attempts,
                                 has_in_progress),
          assignment_status |-> assignment_status,
          assigned_question_count |-> assigned_question_count],
       assignments |-> IF create THEN asg \cup {new_assignment} ELSE asg]

(***************************************************************************)
(* Attempt Materializer: question selection                                *)
(***************************************************************************)
\* The str() key of a scenario: str(sc.get('id')).
ScenarioKey(sc) == PyStr(Get(sc, "id", NoneId))

\* list.sort(key=...) is stable: x goes behind every element whose key is not
\* greater than its own.
RECURSIVE InsertByKey(_, _)
InsertByKey(sorted, x) ==
  IF sorted = << >> THEN <<x>>
  ELSE IF StrLess(ScenarioKey(x), ScenarioKey(sorted[1])) THEN <<x>> \o sorted
  ELSE <<sorted[1]>> \o InsertByKey(Tail(sorted), x)

RECURSIVE SortByIdStr(_)
SortByIdStr(pool) ==
  IF pool = << >> THEN << >>
  ELSE InsertByKey(SortByIdStr(SubSeq(pool, 1, Len(pool) - 1)), pool[Len(pool)])

\* A selection in the order of the restriction list.
FilterInListOrder(scenarios, selected_ids) ==
  LET matching(id) == SelectSeq(scenarios, LAMBDA sc : ScenarioKey(sc) = PyStr(id))
      F[k \in 0..Len(selected_ids)] ==
        IF k = 0 THEN << >> ELSE F[k - 1] \o matching(selected_ids[k])
  IN  F[Len(selected_ids)]

\* The scenarios kept by an assignment's restriction, in configuration order.
FilterScenarios(scenarios, selected_ids) ==
  LET id_set == {PyStr(selected_ids[i]) : i \in 1..Len(selected_ids)}
      keep(sc) == ScenarioKey(sc) \in id_set
  IN  SelectSeq(scenarios, keep)

\* A cut of the pool as configured, without the sort.
TruncateUnsorted(scenarios, settings) ==
  Slice(scenarios, IntOr(Get(settings, "numberOfQuestions", 0), Len(scenarios)))

\* The pool cut to numberOfQuestions, sorted by id string when it is cut.
TruncateScenarios(scenarios, settings) ==
  LET num == IntOr(Get(settings, "numberOfQuestions", 0), Len(scenarios))
      pool == IF num < Len(scenarios) THEN SortByIdStr(scenarios) ELSE scenarios
  IN  Slice(pool, num)

\* The SJT branch of start_test_attempt; assignment is the caller's (None for
\* a caller who is no candidate).
SelectSJT(config_data, assignment) ==
  LET scenarios == Get(config_data, "scenarios", << >>)
      settings == Get(config_data, "settings", EmptyDict)
      custom == IF IsSome(assignment) THEN The(assignment).custom_config ELSE EmptyDict
      selected_ids == Get(custom, "sjt_scenario_ids", << >>)
  IN  IF selected_ids # << >>
      THEN FilterScenarios(scenarios, selected_ids)
      ELSE TruncateScenarios(scenarios, settings)

AI_PLACEHOLDER ==
  [question |-> "AI generated question placeholder",
   preferredAnswer |-> "Evaluate for clarity/relevance",
   competency |-> "AI-Assessed"]

\* A match that accepts any role.
RoleMatchesAny(role, role_category) == TRUE

\* r.get('roleName') == payload.role_category
RoleMatches(role, role_category) == role.roleName = role_category

\* The JDT branch of start_test_attempt.
SelectJDT(config_data, role_category) ==
  LET roles == Get(config_data, "roles", << >>)
      settings == Get(config_data, "settings", EmptyDict)
      matches == IF IsSome(role_category) /\ The(role_category) # ""
                 THEN {i \in 1..Len(roles) : RoleMatches(roles[i], The(role_category))}
                 ELSE {}
      chosen == IF matches # {} THEN CHOOSE i \in matches : \A j \in matches : i <= j
                ELSE IF roles # << >> THEN 1 ELSE 0
      manual_qs == IF chosen = 0 THEN << >> ELSE Get(roles[chosen], "questions", << >>)
      num_manual == IntOr(Get(settings, "numberOfQuestions", 0), Len(manual_qs))
      manual_subset == Slice(manual_qs, num_manual)
      ai_num == IntOr(IntOr(Get(settings, "aiGeneratedQuestions", 0),
                            Get(settings, "aiQuestions", 0)), 0)
  IN  [i \in 1..(Len(manual_subset) + Max(0, ai_num)) |->
         IF i <= Len(manual_subset)
         THEN [question |-> manual_subset[i].text,
               preferredAnswer |-> manual_subset[i].preferredAnswer,
               competency |-> manual_subset[i].competency]
         ELSE AI_PLACEHOLDER]

(***************************************************************************)
(* Attempts                                                                *)
(***************************************************************************)
\* A row without the configuration's id and version in its metadata.
TestAttemptBare(id, user_id, test_type, attempt_number, questions, cfg_id, cfg_version, role_category) ==
  [id |-> id, user_id |-> user_id, test_type |-> test_type,
   attempt_number |-> attempt_number, status |-> "in_progress",
   completed_at |-> Nothing, max_questions |-> Len(questions),
   questions_snapshot |-> questions,
   attempt_metadata |-> [role_category |-> role_category]]

\* A new row of table test_attempts as start_test_attempt builds it.
TestAttempt(id, user_id, test_type, attempt_number, questions, cfg_id, cfg_version, role_category) ==
  [id |-> id, user_id |-> user_id, test_type |-> test_type,
   attempt_number |-> attempt_number, status |-> "in_progress",
   completed_at |-> Nothing, max_questions |-> Len(questions),
   questions_snapshot |-> questions,
   attempt_metadata |-> [config_id |-> cfg_id, role_category |-> role_category,
                         config_version |-> cfg_version]]

\* previous_attempts + 1: every attempt of (u, tt) counts, whatever its status.
NextAttemptNumber(att, u, tt) ==
  Cardinality({i \in 1..Len(att) : att[i].user_id = u /\ att[i].test_type = tt}) + 1

\* The table without its uniqueness constraint.
UniqueViolationOff(att, row) == FALSE

\* ux_user_test_attempt_number: the insert of `row` is refused.
UniqueViolation(att, row) ==
  \E i \in 1..Len(att) :
     /\ att[i].user_id = row.user_id
     /\ att[i].test_type = row.test_type
     /\ att[i].attempt_number = row.attempt_number

\* A response built from the configuration in force, not from the stored row.
from_live_config(attempt) ==
  LET cfg == QueryActiveConfig(configs, TenantOf(attempt.user_id), attempt.test_type)
      live == IF IsSome(cfg) THEN Get(The(cfg).config_data, "scenarios", << >>)
              ELSE << >>
  IN  [attempt EXCEPT !.questions_snapshot = live, !.max_questions = Len(live)]

\* TestAttemptResponse.from_orm: the columns of the row the response carries.
from_orm(attempt) ==
  [id |-> attempt.id, user_id |-> attempt.user_id, test_type |-> attempt.test_type,
   attempt_number |-> attempt.attempt_number, status |-> attempt.status,
   completed_at |-> attempt.completed_at, max_questions |-> attempt.max_questions,
   questions_snapshot |-> attempt.questions_snapshot,
   attempt_metadata |-> attempt.attempt_metadata]

Idle == [op |-> "idle"]

\* An HTTPException, or the 500 of an exception nobody catches.
Failure(op, u, code, detail) ==
  [status_code |-> code, op |-> op, user |-> u, detail |-> detail]

\* Requests in flight that will still insert an attempt.
StartsInFlight == Cardinality({p \in Procs : req[p].op = "start"})

(***************************************************************************)
(* start_test_attempt, one action per group of database round trips        *)
(***************************************************************************)
\* Lines 168-175: validation and the availability check.
StartCheck(p, u, test_type, role_category) ==
  /\ req[p] = Idle
  /\ Len(attempts) + StartsInFlight < MaxAttemptRows
  /\ LET tt == Upper(test_type) IN
     IF tt \notin TestTypes
     THEN /\ resp' = Failure("start", u, 400, "Invalid test_type")
          /\ UNCHANGED <<now, autoAssign, configs, cache, assignments, attempts, req, uuids>>
     ELSE LET g == _get_config(cache[p], now, configs, TenantOf(u), tt)
              av == get_test_availability(g.config, u, tt, assignments, attempts,
                                          autoAssign)
          IN  /\ cache' = [cache EXCEPT ![p] = g.cache]
              /\ assignments' = av.assignments
              /\ IF av.response.can_start
                 THEN /\ req' = [req EXCEPT ![p] =
                                   [op |-> "start", pc |-> "select", user |-> u,
                                    test_type |-> tt, role_category |-> role_category,
                                    availability |-> av.response]]
                      /\ UNCHANGED resp
                 ELSE /\ resp' = Failure("start", u, 403, "Cannot start this test")
                      /\ UNCHANGED req
              /\ UNCHANGED <<now, autoAssign, configs, attempts, uuids>>

\* Lines 177-251: the configuration again, the question selection and the
\* count of the previous attempts.
StartSelect(p) ==
  /\ req[p].op = "start" /\ req[p].pc = "select"
  /\ LET r == req[p]
         g == _get_config(cache[p], now, configs, TenantOf(r.user), r.test_type)
     IN  /\ cache' = [cache EXCEPT ![p] = g.cache]
         /\ IF ~IsSome(g.config)
            THEN /\ resp' = Failure("start", r.user, 500, "Configuration missing")
                 /\ req' = [req EXCEPT ![p] = Idle]
            ELSE LET cfg == The(g.config)
                     assignment == IF Role(r.user) = "candidate"
                                   THEN AssignmentOf(assignments, r.user, r.test_type)
                                   ELSE Nothing
                     questions == IF r.test_type = "SJT"
                                  THEN SelectSJT(cfg.config_data, assignment)
                                  ELSE SelectJDT(cfg.config_data, r.role_category)
                 IN  /\ req' = [req EXCEPT ![p] =
                                  [op |-> "start", pc |-> "insert", user |-> r.user,
                                   test_type |-> r.test_type,
                                   role_category |-> r.role_category,
                                   availability |-> r.availability,
                                   questions |-> questions,
                                   attempt_number |->
                                     NextAttemptNumber(attempts, r.user, r.test_type),
                                   config_id |-> cfg.id,
                                   config_version |-> cfg.version]]
                     /\ UNCHANGED resp
         /\ UNCHANGED <<now, autoAssign, configs, assignments, attempts, uuids>>

\* Lines 261-287: the insert, its commit and the response.
StartInsert(p) ==
  /\ req[p].op = "start" /\ req[p].pc = "insert"
  /\ LET r == req[p]
         row == TestAttempt(Len(attempts) + 1, r.user, r.test_type, r.attempt_number,
                            r.questions, r.config_id, r.config_version,
                            r.role_category)
     IN  IF UniqueViolation(attempts, row)
         THEN /\ resp' = Failure("start", r.user, 500, "IntegrityError")
              /\ UNCHANGED attempts
         ELSE /\ attempts' = Append(attempts, row)
              /\ resp' = [status_code |-> 200, op |-> "start", user |-> r.user,
                             attempt |-> from_orm(row), questions |-> r.questions,
                             can_start |-> TRUE,
                             remaining_attempts |->
                               Max(0, r.availability.max_attempts - r.attempt_number)]
  /\ req' = [req EXCEPT ![p] = Idle]
  /\ UNCHANGED <<now, autoAssign, configs, cache, assignments, uuids>>

(***************************************************************************)
(* get_test_availability as an endpoint                                    *)
(***************************************************************************)
GetAvailability(p, u, test_type) ==
  /\ req[p] = Idle
  /\ LET tt == Upper(test_type) IN
     IF tt \notin TestTypes
     THEN /\ resp' = Failure("availability", u, 400, "Invalid test_type")
          /\ UNCHANGED <<cache, assignments>>
     ELSE LET g == _get_config(cache[p], now, configs, TenantOf(u), tt)
              av == get_test_availability(g.config, u, tt, assignments, attempts,
                                          autoAssign)
          IN  /\ cache' = [cache EXCEPT ![p] = g.cache]
              /\ assignments' = av.assignments
              /\ resp' = av.response
  /\ UNCHANGED <<now, autoAssign, configs, attempts, req, uuids>>

(***************************************************************************)
(* Access to one attempt: the checks shared by get_attempt,                *)
(* submit_attempt_answer and complete_attempt                              *)
(***************************************************************************)
AttemptExists(att, attempt_id) == attempt_id \in 1..Len(att)

\* A lookup without the ownership check.
AccessOpen(att, u, attempt_id) == FALSE

AccessDenied(att, u, attempt_id) ==
  Role(u) = "candidate" /\ att[attempt_id].user_id # u

\* The 404 / 403 answer of the lookup, or None when the caller may go on.
LookupFailure(op, att, u, attempt_id) ==
  IF ~AttemptExists(att, attempt_id)
  THEN Some([status_code |-> 404, op |-> op, user |-> u, attempt_id |-> attempt_id,
             detail |-> "Attempt not found"])
  ELSE IF AccessDenied(att, u, attempt_id)
  THEN Some([status_code |-> 403, op |-> op, user |-> u, attempt_id |-> attempt_id,
             detail |-> "Access denied"])
  ELSE Nothing

GetAttempt(p, u, attempt_id) ==
  /\ req[p] = Idle
  /\ LET f == LookupFailure("get_attempt", attempts, u, attempt_id)
     IN  resp' = IF IsSome(f) THEN The(f)
                    ELSE [status_code |-> 200, op |-> "get_attempt", user |-> u,
                          attempt_id |-> attempt_id,
                          attempt |-> from_orm(attempts[attempt_id])]
  /\ UNCHANGED <<now, autoAssign, configs, cache, assignments, attempts, req, uuids>>

\* Lines 489-502: the caller's attempts, filtered, newest first, at most
\* LIST_LIMIT of them.  Rows are stored in the order of started_at.
list_attempts(att, u, test_type, status_filter) ==
  LET Keep(a) == /\ a.user_id = u
                 /\ IsSome(test_type) => a.test_type = Upper(The(test_type))
                 /\ IsSome(status_filter) => a.status = The(status_filter)
      rows == SelectSeq(att, Keep)
      newest == [i \in 1..Len(rows) |-> rows[Len(rows) + 1 - i]]
  IN  [i \in 1..Min(Len(newest), LIST_LIMIT) |-> from_orm(newest[i])]

ListAttempts(p, u, test_type, status_filter) ==
  /\ req[p] = Idle
  /\ resp' = [status_code |-> 200, op |-> "list_attempts", user |-> u,
                 attempts |-> list_attempts(attempts, u, test_type, status_filter)]
  /\ UNCHANGED <<now, autoAssign, configs, cache, assignments, attempts, req, uuids>>

(***************************************************************************)
(* Attempt Finalizer                                                       *)
(***************************************************************************)
\* A finalizer that honours the request's status field.
RequestedStatus(payload) ==
  IF IsSome(payload.status) THEN The(payload.status) ELSE "completed"

\* The status complete_attempt writes; the request's status field is not read.
CompletedStatus(payload) == "completed"

\* A finalizer without the state check.
MayFinalizeAny(attempt) == TRUE

\* Whether complete_attempt goes on to finalize the attempt it loaded.
MayFinalize(attempt) == attempt.status = "in_progress"

\* Lines 518-526: the attributes complete_attempt assigns on the loaded row.
Finalized(attempt, payload, t) ==
  LET meta == attempt.attempt_metadata
      with_score == IF payload.score # EmptyDict THEN Put(meta, "score", payload.score)
                    ELSE meta
      with_count == IF payload.answers # << >>
                    THEN Put(with_score, "answers_count", Len(payload.answers))
                    ELSE with_score
  IN  [attempt EXCEPT !.status = CompletedStatus(payload),
                      !.completed_at = Some(t),
                      !.attempt_metadata = with_count]

\* Lines 511-517: the lookup and the three checks.
CompleteRead(p, u, attempt_id, payload) ==
  /\ req[p] = Idle
  /\ LET f == LookupFailure("complete", attempts, u, attempt_id) IN
     IF IsSome(f)
     THEN /\ resp' = The(f)
          /\ UNCHANGED req
     ELSE IF ~MayFinalize(attempts[attempt_id])
     THEN /\ resp' = [status_code |-> 400, op |-> "complete", user |-> u,
                         attempt_id |-> attempt_id,
                         detail |-> "Attempt already finalized"]
          /\ UNCHANGED req
     ELSE /\ req' = [req EXCEPT ![p] =
                       [op |-> "complete", pc |-> "commit", user |-> u,
                        attempt_id |-> attempt_id, payload |-> payload,
                        attempt |-> attempts[attempt_id]]]
          /\ UNCHANGED resp
  /\ UNCHANGED <<now, autoAssign, configs, cache, assignments, attempts, uuids>>

\* Lines 518-529: the UPDATE of the assigned columns, and the response read
\* back by db.refresh.
CompleteCommit(p) ==
  /\ req[p].op = "complete" /\ req[p].pc = "commit"
  /\ LET r == req[p]
         done == Finalized(r.attempt, r.payload, now)
         written == [attempts[r.attempt_id] EXCEPT
                       !.status = done.status,
                       !.completed_at = done.completed_at,
                       !.attempt_metadata =
                          IF r.payload.score # EmptyDict \/ r.payload.answers # << >>
                          THEN done.attempt_metadata ELSE @]
     IN  /\ attempts' = [attempts EXCEPT ![r.attempt_id] = written]
         /\ resp' = [status_code |-> 200, op |-> "complete", user |-> r.user,
                        attempt_id |-> r.attempt_id, request |-> r.payload,
                        attempt |-> from_orm(written), message |-> "Attempt completed"]
  /\ req' = [req EXCEPT ![p] = Idle]
  /\ UNCHANGED <<now, autoAssign, configs, cache, assignments, uuids>>

(***************************************************************************)
(* Answer Ledger                                                           *)
(***************************************************************************)
_derive_max_follow_ups(config_data) ==
  LET settings == Get(config_data, "settings", EmptyDict)
      val == IF "followUpCount" \in DOMAIN settings THEN Some(settings.followUpCount)
             ELSE IF Get(settings, "aiGeneratedQuestions", 0) # 0
             THEN Some(settings.aiGeneratedQuestions)
             ELSE IF "aiQuestions" \in DOMAIN settings THEN Some(settings.aiQuestions)
             ELSE Nothing
      v == IF IsSome(val) THEN The(val) ELSE 1
  IN  Min(IF v < 0 THEN 0 ELSE v, MAX_FOLLOW_UP_CAP)

\* A follow-up limit that does not look at the test type.
MaxFollowAnyType(test_type, config_data) == _derive_max_follow_ups(config_data)

\* The follow-up limit submit_attempt_answer works with.
MaxFollow(test_type, config_data) ==
  IF test_type = "SJT" THEN _derive_max_follow_ups(config_data) ELSE 0

\* A ledger whose base answers set the counter of their index back to 0.
CountFollowUpReset(follow_counts, key, is_follow_up, max_follow) ==
  LET existing == Get(follow_counts, key, 0) IN
  IF ~is_follow_up THEN Put(follow_counts, key, 0)
  ELSE IF existing >= max_follow THEN follow_counts
  ELSE Put(follow_counts, key, existing + 1)

\* Lines 421-434: the counters after this submission.
CountFollowUp(follow_counts, key, is_follow_up, max_follow) ==
  LET existing == Get(follow_counts, key, 0) IN
  IF ~is_follow_up
  THEN IF key \in DOMAIN follow_counts THEN follow_counts ELSE Put(follow_counts, key, 0)
  ELSE IF existing >= max_follow THEN follow_counts
  ELSE Put(follow_counts, key, existing + 1)

\* Lines 414-474 on the loaded attempt: the metadata to persist and the response.
submit_attempt_answer(attempt, config_data, payload, t, answer_id) ==
  LET max_follow == MaxFollow(attempt.test_type, config_data)
      meta == attempt.attempt_metadata
      answers == Get(meta, "answers", << >>)
      follow_counts == Get(meta, "follow_up_counts", EmptyDict)
      base_index == IF IsSome(payload.base_question_index)
                    THEN The(payload.base_question_index)
                    ELSE payload.question_index
      key == IntStr(base_index)
      existing == Get(follow_counts, key, 0)
      sequence == IF payload.is_follow_up THEN existing + 1 ELSE 0
      counts == CountFollowUp(follow_counts, key, payload.is_follow_up, max_follow)
      stored_answer ==
        [id |-> answer_id, base_question_index |-> base_index,
         is_follow_up |-> payload.is_follow_up,
         follow_up_sequence |-> IF IsSome(payload.follow_up_sequence)
                                THEN The(payload.follow_up_sequence) ELSE sequence,
         answer_text |-> payload.answer_text, created_at |-> t]
      used == Get(counts, key, 0)
      remaining == IF attempt.test_type = "SJT" THEN Max(0, max_follow - used) ELSE 0
      can_generate_follow_up ==
        IF payload.is_follow_up THEN remaining > 0 ELSE max_follow > 0
  IN  [meta |-> Put(Put(meta, "answers", Append(answers, stored_answer)),
                    "follow_up_counts", counts),
       response |->
         [status_code |-> 200, op |-> "submit", stored |-> TRUE,
          can_generate_follow_up |-> can_generate_follow_up,
          remaining_follow_ups |-> remaining,
          total_follow_ups_for_base |-> used,
          max_follow_ups |-> max_follow,
          answer |-> stored_answer]]

\* Lines 401-458: the lookup, the three checks, the follow-up limit of the
\* configuration in force and the new metadata, computed on the loaded row.
SubmitRead(p, u, attempt_id, payload) ==
  /\ req[p] = Idle
  /\ LET f == LookupFailure("submit", attempts, u, attempt_id) IN
     IF IsSome(f)
     THEN /\ resp' = The(f)
          /\ UNCHANGED <<req, cache, uuids>>
     ELSE IF attempts[attempt_id].status # "in_progress"
     THEN /\ resp' = [status_code |-> 400, op |-> "submit", user |-> u,
                         attempt_id |-> attempt_id, detail |-> "Attempt not active"]
          /\ UNCHANGED <<req, cache, uuids>>
     ELSE LET attempt == attempts[attempt_id]
              g == _get_config(cache[p], now, configs, TenantOf(u), attempt.test_type)
              config_data == IF IsSome(g.config) THEN The(g.config).config_data
                             ELSE EmptyDict
              out == submit_attempt_answer(attempt, config_data, payload, now, uuids + 1)
          IN  /\ cache' = [cache EXCEPT ![p] = g.cache]
              /\ uuids' = uuids + 1
              /\ req' = [req EXCEPT ![p] =
                           [op |-> "submit", pc |-> "commit", user |-> u,
                            attempt_id |-> attempt_id, meta |-> out.meta,
                            response |-> out.response]]
              /\ UNCHANGED resp
  /\ UNCHANGED <<now, autoAssign, configs, assignments, attempts>>

\* Lines 460-474: attempt.attempt_metadata = meta, the commit and the response.
SubmitCommit(p) ==
  /\ req[p].op = "submit" /\ req[p].pc = "commit"
  /\ LET r == req[p] IN
     /\ attempts' = [attempts EXCEPT ![r.attempt_id].attempt_metadata = r.meta]
     /\ resp' = [status_code |-> 200, op |-> "submit", user |-> r.user,
                    attempt_id |-> r.attempt_id, stored |-> r.response.stored,
                    can_generate_follow_up |-> r.response.can_generate_follow_up,
                    remaining_follow_ups |-> r.response.remaining_follow_ups,
                    total_follow_ups_for_base |-> r.response.total_follow_ups_for_base,
                    max_follow_ups |-> r.response.max_follow_ups,
                    answer |-> r.response.answer]
  /\ req' = [req EXCEPT ![p] = Idle]
  /\ UNCHANGED <<now, autoAssign, configs, cache, assignments, uuids>>

(***************************************************************************)
(* Administrator operations the lifecycle reads                            *)
(***************************************************************************)
\* configurations.py create_configuration (save_sjt_configuration and
\* save_jdt_configuration call it with scope "tenant").
CreateConfiguration(p, admin, config_type, scope, config_data) ==
  /\ req[p] = Idle
  /\ Role(admin) # "candidate"
  /\ Len(configs) < MaxConfigRows
  /\ LET tenant_id == TenantOf(admin)
         old == {i \in 1..Len(configs) :
                   /\ configs[i].tenant_id = tenant_id
                   /\ configs[i].config_type = config_type
                   /\ configs[i].is_active}
         e == IF old = {} THEN 0 ELSE CHOOSE i \in old : \A j \in old : i <= j
         retired == IF e = 0 THEN configs
                    ELSE [configs EXCEPT ![e].is_active = FALSE,
                                         ![e].version = @ + 1,
                                         ![e].updated_at = now]
         version == IF e = 0 THEN 1 ELSE retired[e].version + 1
         row == [Configuration(Len(configs) + 1, tenant_id, config_type, scope,
                               config_data, version) EXCEPT !.updated_at = now]
     IN  /\ configs' = Append(retired, row)
         /\ resp' = [status_code |-> 200, op |-> "create_configuration",
                        user |-> admin, config |-> row]
  /\ UNCHANGED <<now, autoAssign, cache, assignments, attempts, req, uuids>>

\* configurations.py update_configuration
UpdateConfiguration(p, admin, config_id, config_data) ==
  /\ req[p] = Idle
  /\ Role(admin) # "candidate"
  /\ config_id \in 1..Len(configs)
  /\ configs[config_id].tenant_id = TenantOf(admin)
  /\ configs[config_id].version < MaxVersion
  /\ configs' = [configs EXCEPT ![config_id].config_data = config_data,
                                ![config_id].version = @ + 1,
                                ![config_id].updated_at = now]
  /\ resp' = [status_code |-> 200, op |-> "update_configuration", user |-> admin,
                 config |-> configs'[config_id]]
  /\ UNCHANGED <<now, autoAssign, cache, assignments, attempts, req, uuids>>

\* configurations.py delete_configuration: a soft delete.
DeleteConfiguration(p, admin, config_id) ==
  /\ req[p] = Idle
  /\ Role(admin) # "candidate"
  /\ config_id \in 1..Len(configs)
  /\ configs[config_id].tenant_id = TenantOf(admin)
  /\ configs' = [configs EXCEPT ![config_id].is_active = FALSE,
                                ![config_id].updated_at = now]
  /\ resp' = [status_code |-> 200, op |-> "delete_configuration", user |-> admin,
                 message |-> "Configuration deactivated successfully"]
  /\ UNCHANGED <<now, autoAssign, cache, assignments, attempts, req, uuids>>

\* custom_config as bulk_assign_tests_to_users stores it.
CustomConfig(test_type, sjt_scenario_ids) ==
  IF test_type = "SJT" /\ sjt_scenario_ids # << >>
  THEN [sjt_scenario_ids |-> sjt_scenario_ids]
  ELSE EmptyDict

\* assignments.py bulk_assign_tests_to_users for one user and one test type.
BulkAssign(p, admin, u, test_type, max_attempts, sjt_scenario_ids) ==
  /\ req[p] = Idle
  /\ Role(admin) # "candidate"
  /\ Role(u) = "candidate"
  /\ LET tt == Upper(test_type)
         custom_config == CustomConfig(tt, sjt_scenario_ids)
         created == IF tt \in TestTypes /\ ~IsSome(AssignmentOf(assignments, u, tt))
                    THEN {TestAssignment(u, tt, max_attempts, custom_config)}
                    ELSE {}
     IN  /\ assignments' = assignments \cup created
         /\ resp' = [status_code |-> 200, op |-> "bulk_assign", user |-> admin,
                        created |-> created]
  /\ UNCHANGED <<now, autoAssign, configs, cache, attempts, req, uuids>>

\* assignments.py remove_test_assignment
RemoveAssignment(p, admin, u, tt) ==
  /\ req[p] = Idle
  /\ Role(admin) # "candidate"
  /\ IsSome(AssignmentOf(assignments, u, tt))
  /\ assignments' = assignments \ {The(AssignmentOf(assignments, u, tt))}
  /\ resp' = [status_code |-> 200, op |-> "remove_assignment", user |-> admin,
                 message |-> "Test assignment removed successfully"]
  /\ UNCHANGED <<now, autoAssign, configs, cache, attempts, req, uuids>>

\* Time passes, one cache lifetime at a step.
Tick ==
  /\ now < MaxTime
  /\ now' = now + CONFIG_TTL_SECONDS
  /\ UNCHANGED <<autoAssign, configs, cache, assignments, attempts, req, resp, uuids>>

(***************************************************************************)
(* The deployment the lifecycle specifications start from                  *)
(***************************************************************************)
\* "s1", "s2", "s3"
S1 == StrId(<<115, 49>>)
S2 == StrId(<<115, 50>>)
S3 == StrId(<<115, 51>>)

Scenario(id) == [id |-> id]

SjtConfigA ==
  [scenarios |-> <<Scenario(S1), Scenario(S2), Scenario(S3)>>,
   settings |-> [followUpCount |-> 2]]

SjtConfigB ==
  [scenarios |-> <<Scenario(S3), Scenario(S1)>>,
   settings |-> [numberOfQuestions |-> 1, followUpCount |-> 1]]

JdtConfigA ==
  [roles |-> <<[roleName |-> "Engineer",
                questions |-> <<[text |-> "q1", preferredAnswer |-> "a1",
                                 competency |-> "k1"]>>]>>,
   settings |-> [aiGeneratedQuestions |-> 1]]

\* complete_attempt request bodies: an empty one, one that asks for another
\* status, one with a score and an answer list.
EmptyCompletion == [status |-> Nothing, answers |-> << >>, score |-> EmptyDict]
CancelCompletion == [status |-> Some("cancelled"), answers |-> << >>, score |-> EmptyDict]
ScoredCompletion == [status |-> Nothing, answers |-> <<"x", "y">>, score |-> [total |-> 7]]

\* submit_attempt_answer request bodies: the answer to question 0 and a
\* follow-up answer on it.
BaseAnswer ==
  [question_index |-> 0, answer_text |-> "t", is_follow_up |-> FALSE,
   base_question_index |-> Nothing, follow_up_sequence |-> Nothing]
FollowUpAnswer ==
  [question_index |-> 1, answer_text |-> "t", is_follow_up |-> TRUE,
   base_question_index |-> Some(0), follow_up_sequence |-> Nothing]

NoResponse == [status_code |-> 0, op |-> "none"]

(***************************************************************************)
(* Spec: two server processes serve candidate c1, who holds an assignment  *)
(* for both test types; the configurations are published and stay.         *)
(***************************************************************************)
PublishedConfigs ==
  <<Configuration(1, "t1", "sjt", "tenant", SjtConfigA, 1),
    Configuration(2, "t1", "jdt", "tenant", JdtConfigA, 1)>>

Init ==
  /\ now = 0
  /\ autoAssign = FALSE
  /\ configs = PublishedConfigs
  /\ cache = [p \in Procs |-> EmptyDict]
  /\ \E m \in {1, 2} :
       assignments = {TestAssignment("c1", "SJT", m, EmptyDict),
                      TestAssignment("c1", "JDT", 2, EmptyDict)}
  /\ attempts = << >>
  /\ req = [p \in Procs |-> Idle]
  /\ resp = NoResponse
  /\ uuids = 0

Next ==
  \E p \in Procs :
    \/ \E tt \in TestTypes : StartCheck(p, "c1", tt, Nothing)
    \/ StartSelect(p)
    \/ StartInsert(p)
    \/ \E id \in 1..MaxAttemptRows, payload \in {EmptyCompletion, CancelCompletion} :
         CompleteRead(p, "c1", id, payload)
    \/ CompleteCommit(p)

Spec == Init /\ [][Next]_vars

\* The attempts of (u, tt), by row index.
RowsOf(u, tt) ==
  {i \in 1..Len(attempts) : attempts[i].user_id = u /\ attempts[i].test_type = tt}

\* C1: in every reachable state, at most one attempt of a (user, test type)
\* is in_progress, whatever the interleaving of the requests.
C1_AtMostOneInProgress ==
  \A u \in Users, tt \in TestTypes :
    Cardinality(AttemptsWithStatus(attempts, u, tt, "in_progress")) <= 1

\* C2: the attempt numbers of a (user, test type) are exactly 1..n, n the
\* number of its stored attempts, and they grow in the order of creation.
C2_AttemptNumbersSequential ==
  \A u \in Users, tt \in TestTypes :
    /\ {attempts[i].attempt_number : i \in RowsOf(u, tt)} = 1..Cardinality(RowsOf(u, tt))
    /\ \A i, j \in RowsOf(u, tt) :
         i < j => attempts[i].attempt_number < attempts[j].attempt_number

\* C2 witness: two starts read the same count, one inserted its row, the
\* other was refused by the uniqueness constraint.
C2_Witness ==
  /\ resp.status_code = 500 /\ resp.detail = "IntegrityError"
  /\ \E tt \in TestTypes : Cardinality(RowsOf("c1", tt)) >= 2

(***************************************************************************)
(* SpecElig: one server process; candidate c1, administrator a1 and       *)
(* superadmin sa call the SJT endpoints while a1 assigns and removes      *)
(* c1's test and retires and republishes the configuration.  a1 may hold  *)
(* an assignment row from the time before the promotion to administrator. *)
(***************************************************************************)
InitElig ==
  /\ now = 0
  /\ autoAssign \in BOOLEAN
  /\ configs = <<Configuration(1, "t1", "sjt", "tenant", SjtConfigA, 1)>>
  /\ cache = [p \in Procs |-> EmptyDict]
  /\ assignments \in {{}, {TestAssignment("a1", "SJT", 2, EmptyDict)}}
  /\ attempts = << >>
  /\ req = [p \in Procs |-> Idle]
  /\ resp = NoResponse
  /\ uuids = 0

NextElig ==
  \/ \E u \in {"c1", "a1", "sa"} : GetAvailability("p1", u, "SJT")
  \/ StartCheck("p1", "c1", "SJT", Nothing)
  \/ StartSelect("p1")
  \/ StartInsert("p1")
  \/ \E id \in 1..MaxAttemptRows : CompleteRead("p1", "c1", id, EmptyCompletion)
  \/ CompleteCommit("p1")
  \/ \E m \in 0..2 : BulkAssign("p1", "a1", "c1", "SJT", m, << >>)
  \/ RemoveAssignment("p1", "a1", "c1", "SJT")
  \/ \E id \in 1..MaxConfigRows : DeleteConfiguration("p1", "a1", id)
  \/ CreateConfiguration("p1", "a1", "sjt", "tenant", SjtConfigA)

SpecElig == InitElig /\ [][NextElig]_vars

\* The completed attempts of (u, tt), counted on the table.
CompletedCount(u, tt) ==
  Cardinality({i \in RowsOf(u, tt) : attempts[i].status = "completed"})

\* The attempt limit that applies to u: the assignment's for a candidate who
\* has one with a limit other than 0, the default otherwise.
LimitOf(u, tt) ==
  LET rows == {a \in assignments : a.user_id = u /\ a.test_type = tt}
  IN  IF Role(u) = "candidate" /\ rows # {} /\ (\A a \in rows : a.max_attempts # 0)
      THEN (CHOOSE a \in rows : TRUE).max_attempts
      ELSE MAX_ATTEMPTS_DEFAULT

\* C3: an availability response has can_start = assigned and configured and
\* attempts_used < max_attempts and no in_progress attempt, with attempts_used
\* the number of completed attempts; and a start_attempt called when the
\* completed attempts have reached the limit answers 403 and creates nothing.
C3_CanStartFormula ==
  [][/\ \A u \in Users :
          GetAvailability("p1", u, "SJT") =>
            /\ resp'.attempts_used = CompletedCount(u, "SJT")
            /\ resp'.max_attempts = LimitOf(u, "SJT")
            /\ resp'.can_start =
                 (/\ resp'.assigned
                  /\ resp'.configured
                  /\ resp'.attempts_used < resp'.max_attempts
                  /\ \A i \in RowsOf(u, "SJT") : attempts[i].status # "in_progress")
            /\ (resp'.attempts_used >= resp'.max_attempts => ~resp'.can_start)
            /\ attempts' = attempts
     /\ \A u \in Users :
          (/\ StartCheck("p1", u, "SJT", Nothing)
           /\ CompletedCount(u, "SJT") >= LimitOf(u, "SJT")) =>
            /\ resp' = Failure("start", u, 403, "Cannot start this test")
            /\ attempts' = attempts
            /\ req' = req]_vars

\* C3 witness: c1, assigned and configured and with no attempt in progress,
\* has used the attempts of the assignment and the start was refused.
C3_Witness ==
  /\ resp = Failure("start", "c1", 403, "Cannot start this test")
  /\ IsSome(AssignmentOf(assignments, "c1", "SJT"))
  /\ IsSome(QueryActiveConfig(configs, "t1", "SJT"))
  /\ CompletedCount("c1", "SJT") = 2
  /\ LimitOf("c1", "SJT") = 2
  /\ \A i \in RowsOf("c1", "SJT") : attempts[i].status = "completed"

\* C10: for an admin or superadmin caller the availability response has
\* assigned = true and assignment_status 'admin_preview', whatever the
\* assignment table holds, and the table is left as it was.
C10_AdminPreview ==
  [][\A u \in Users :
       (Role(u) \in {"admin", "superadmin"} /\ GetAvailability("p1", u, "SJT")) =>
         /\ resp'.status_code = 200
         /\ resp'.assigned
         /\ resp'.assignment_status = Some("admin_preview")
         /\ assignments' = assignments]_vars

\* C10 witness: with auto-assignment switched on and a configuration present,
\* an administrator without any assignment row got the preview answer.
C10_Witness ==
  /\ resp.op = "availability" /\ resp.user \in {"a1", "sa"}
  /\ resp.assigned /\ resp.configured
  /\ autoAssign
  /\ ~\E a \in assignments : a.user_id = resp.user

(***************************************************************************)
(* SpecFrame: one server process serves candidate c1's SJT attempts       *)
(* (start, submit, read, complete) while administrator a1 republishes,    *)
(* edits and retires the SJT configuration.                               *)
(***************************************************************************)
InitFrame ==
  /\ now = 0
  /\ autoAssign = FALSE
  /\ configs = <<Configuration(1, "t1", "sjt", "tenant", SjtConfigA, 1)>>
  /\ cache = [p \in Procs |-> EmptyDict]
  /\ assignments = {TestAssignment("c1", "SJT", 2, EmptyDict)}
  /\ attempts = << >>
  /\ req = [p \in Procs |-> Idle]
  /\ resp = NoResponse
  /\ uuids = 0

NextFrame ==
  \/ StartCheck("p1", "c1", "SJT", Nothing)
  \/ StartSelect("p1")
  \/ StartInsert("p1")
  \/ \E id \in 1..MaxAttemptRows :
       uuids < MaxFrameAnswers /\ SubmitRead("p1", "c1", id, BaseAnswer)
  \/ SubmitCommit("p1")
  \/ \E id \in 1..MaxAttemptRows : GetAttempt("p1", "c1", id)
  \/ \E id \in 1..MaxAttemptRows : CompleteRead("p1", "c1", id, ScoredCompletion)
  \/ CompleteCommit("p1")
  \/ CreateConfiguration("p1", "a1", "sjt", "tenant", SjtConfigB)
  \/ \E id \in 1..MaxConfigRows : UpdateConfiguration("p1", "a1", id, SjtConfigB)
  \/ \E id \in 1..MaxConfigRows : DeleteConfiguration("p1", "a1", id)

SpecFrame == InitFrame /\ [][NextFrame]_vars

\* C4: no step changes the questions_snapshot or max_questions of a stored
\* attempt, whatever happens to the configuration; start_attempt returns the
\* list it stores, and get_attempt returns the stored list.
C4_SnapshotImmutable ==
  [][/\ Len(attempts') >= Len(attempts)
     /\ \A i \in 1..Len(attempts) :
          /\ attempts'[i].questions_snapshot = attempts[i].questions_snapshot
          /\ attempts'[i].max_questions = attempts[i].max_questions
     /\ (StartInsert("p1") /\ Len(attempts') > Len(attempts)) =>
          /\ resp'.questions = attempts'[Len(attempts')].questions_snapshot
          /\ resp'.attempt.questions_snapshot = resp'.questions
          /\ resp'.attempt.max_questions = Len(resp'.questions)
     /\ \A id \in 1..Len(attempts) :
          GetAttempt("p1", "c1", id) =>
            /\ resp'.attempt.questions_snapshot = attempts[id].questions_snapshot
            /\ resp'.attempt.max_questions = attempts[id].max_questions]_vars

\* C4 witness: an attempt started from the first configuration was answered
\* and completed, the configuration in force is no longer that one, and
\* get_attempt returned the three scenarios the start served.
C4_Witness ==
  /\ resp.op = "get_attempt" /\ resp.status_code = 200
  /\ resp.attempt.questions_snapshot = SjtConfigA.scenarios
  /\ resp.attempt.max_questions = 3
  /\ resp.attempt.status = "completed"
  /\ "answers" \in DOMAIN resp.attempt.attempt_metadata
  /\ LET q == QueryActiveConfig(configs, "t1", "SJT")
     IN  ~IsSome(q) \/ The(q).config_data # SjtConfigA

(***************************************************************************)
(* SpecFinal: one server process serves candidate c1's SJT attempts while *)
(* time passes; complete_attempt is called with an empty body, with a     *)
(* body asking for status 'cancelled', and with a score and answers.      *)
(***************************************************************************)
NextFinal ==
  \/ StartCheck("p1", "c1", "SJT", Nothing)
  \/ StartSelect("p1")
  \/ StartInsert("p1")
  \/ \E id \in 1..MaxAttemptRows :
       uuids < MaxFrameAnswers /\ SubmitRead("p1", "c1", id, BaseAnswer)
  \/ SubmitCommit("p1")
  \/ \E id \in 1..MaxAttemptRows,
        payload \in {EmptyCompletion, CancelCompletion, ScoredCompletion} :
       CompleteRead("p1", "c1", id, payload)
  \/ CompleteCommit("p1")
  \/ Tick

SpecFinal == InitFrame /\ [][NextFinal]_vars

\* C5: complete_attempt on an attempt that is not in_progress answers 400 and
\* writes nothing, so a completed attempt keeps the status, completed_at and
\* metadata its first completion left.
C5_SecondCompleteFails ==
  [][/\ \A id \in 1..Len(attempts) :
          \A payload \in {EmptyCompletion, CancelCompletion, ScoredCompletion} :
            (/\ CompleteRead("p1", "c1", id, payload)
             /\ attempts[id].status # "in_progress") =>
              /\ resp'.status_code = 400
              /\ resp'.detail = "Attempt already finalized"
              /\ attempts' = attempts
              /\ req' = req
     /\ \A i \in 1..Len(attempts) :
          attempts[i].status # "in_progress" => attempts'[i] = attempts[i]]_vars

\* C5 witness: a second complete_attempt was refused at a later time than the
\* first one's completed_at, which the attempt still carries.
C5_Witness ==
  /\ resp.op = "complete" /\ resp.status_code = 400
  /\ attempts[resp.attempt_id].status = "completed"
  /\ attempts[resp.attempt_id].completed_at = Some(0)
  /\ now > 0

\* C6: an attempt is created in_progress with no completed_at; the only status
\* change is in_progress -> completed; complete_attempt writes 'completed'
\* whatever status the request asks for, so no attempt is ever 'cancelled'.
C6_StatusMachine ==
  [][/\ Len(attempts') >= Len(attempts)
     /\ \A i \in 1..Len(attempts) :
          \/ attempts'[i].status = attempts[i].status
          \/ attempts[i].status = "in_progress" /\ attempts'[i].status = "completed"
     /\ \A i \in (Len(attempts) + 1)..Len(attempts') :
          attempts'[i].status = "in_progress" /\ attempts'[i].completed_at = Nothing
     /\ \A i \in 1..Len(attempts') :
          attempts'[i].status \in {"in_progress", "completed"}]_vars

\* C6 witness: a complete_attempt whose body asked for 'cancelled' succeeded
\* and the attempt is 'completed'.
C6_Witness ==
  /\ resp.op = "complete" /\ resp.status_code = 200
  /\ resp.request.status = Some("cancelled")
  /\ resp.attempt.status = "completed"
  /\ attempts[resp.attempt_id].status = "completed"

(***************************************************************************)
(* SpecLedger: one server process stores candidate c1's answers on an SJT *)
(* attempt while administrator a1 edits the follow-up quota of the        *)
(* configuration (2 <-> 1) and the configuration cache expires.           *)
(***************************************************************************)
InitLedger ==
  /\ now = 0
  /\ autoAssign = FALSE
  /\ configs = <<Configuration(1, "t1", "sjt", "tenant", SjtConfigA, 1)>>
  /\ cache = [p \in Procs |-> EmptyDict]
  /\ assignments = {TestAssignment("c1", "SJT", 1, EmptyDict)}
  /\ attempts = << >>
  /\ req = [p \in Procs |-> Idle]
  /\ resp = NoResponse
  /\ uuids = 0

NextLedger ==
  \/ StartCheck("p1", "c1", "SJT", Nothing)
  \/ StartSelect("p1")
  \/ StartInsert("p1")
  \/ \E payload \in {BaseAnswer, FollowUpAnswer} :
       uuids < MaxAnswers /\ SubmitRead("p1", "c1", 1, payload)
  \/ SubmitCommit("p1")
  \/ \E data \in {SjtConfigA, SjtConfigB} : UpdateConfiguration("p1", "a1", 1, data)
  \/ Tick

SpecLedger == InitLedger /\ [][NextLedger]_vars

\* The follow-up counter an attempt stores for a base-question key.
FollowUpCounter(attempt, key) ==
  Get(Get(attempt.attempt_metadata, "follow_up_counts", EmptyDict), key, 0)

\* C9 as stated: after any submit_answer the stored counter of the base index
\* is within the follow-up quota and the response has
\* total_follow_ups_for_base <= max_follow_ups, whatever happened to the
\* configuration between the submissions.
C9_CounterWithinQuota ==
  (resp.op = "submit" /\ resp.status_code = 200) =>
    /\ resp.total_follow_ups_for_base <= resp.max_follow_ups
    /\ FollowUpCounter(attempts[resp.attempt_id],
                       IntStr(resp.answer.base_question_index)) <= resp.max_follow_ups

(***************************************************************************)
(* SpecSelect: the SJT selection of start_test_attempt on drawn inputs.   *)
(* The published configuration has any scenario list over ScenarioIds of  *)
(* at most MaxScenarios entries and numberOfQuestions unset or in         *)
(* -1..MaxScenarios+1; c1's assignment carries one of Restrictions (none  *)
(* for the empty list), c2's carries none; each of them starts once.      *)
(***************************************************************************)
\* "a", "b", "c", "10", "zz"
IdA == StrId(<<97>>)
IdB == StrId(<<98>>)
IdC == StrId(<<99>>)
IdStr10 == StrId(<<49, 48>>)
IdZZ == StrId(<<122, 122>>)

ScenarioIds == {IdA, IdB, IdC, IntId(2), IntId(10), IdStr10}

Restrictions == {<< >>, <<IdB, IdA>>, <<IdStr10>>, <<IdZZ>>}

ScenarioLists ==
  UNION {[1..n -> {Scenario(id) : id \in ScenarioIds}] : n \in 0..MaxScenarios}

QuestionCounts == {Nothing} \cup {Some(n) : n \in (0 - 1)..(MaxScenarios + 1)}

SelectConfig(scenarios, count) ==
  [scenarios |-> scenarios,
   settings |-> IF IsSome(count) THEN [numberOfQuestions |-> The(count)] ELSE EmptyDict]

InitSelect ==
  /\ now = 0
  /\ autoAssign = FALSE
  /\ \E scenarios \in ScenarioLists, count \in QuestionCounts :
       configs = <<Configuration(1, "t1", "sjt", "tenant",
                                 SelectConfig(scenarios, count), 1)>>
  /\ cache = [p \in Procs |-> EmptyDict]
  /\ \E ids \in Restrictions :
       assignments = {TestAssignment("c1", "SJT", 1, CustomConfig("SJT", ids)),
                      TestAssignment("c2", "SJT", 1, EmptyDict)}
  /\ attempts = << >>
  /\ req = [p \in Procs |-> Idle]
  /\ resp = NoResponse
  /\ uuids = 0

NextSelect ==
  \/ \E u \in {"c1", "c2"} : StartCheck("p1", u, "SJT", Nothing)
  \/ StartSelect("p1")
  \/ StartInsert("p1")

SpecSelect == InitSelect /\ [][NextSelect]_vars

\* The restriction list of u's SJT assignment, empty when there is none.
RestrictionOf(u) ==
  LET rows == {a \in assignments : a.user_id = u /\ a.test_type = "SJT"}
  IN  IF rows = {} THEN << >>
      ELSE Get((CHOOSE a \in rows : TRUE).custom_config, "sjt_scenario_ids", << >>)

\* The positions of the configuration's scenarios whose id, as a string, is
\* one of ids.
KeptPositions(scenarios, ids) ==
  {i \in 1..Len(scenarios) :
     \E k \in 1..Len(ids) : PyStr(ids[k]) = PyStr(scenarios[i].id)}

\* served lists the scenarios at the positions K, in the order of positions.
ServesPositions(served, scenarios, K) ==
  /\ Len(served) = Cardinality(K)
  /\ \A i \in K : served[Cardinality({j \in K : j <= i})] = scenarios[i]

\* C7: an SJT attempt of a candidate whose assignment restricts to a list of
\* scenario ids holds exactly the configuration's scenarios whose id is in
\* the list, in configuration order, whatever numberOfQuestions is.
C7_RestrictionFilters ==
  \A i \in 1..Len(attempts) :
    LET ids == RestrictionOf(attempts[i].user_id)
        scenarios == configs[1].config_data.scenarios
    IN  ids # << >> =>
          ServesPositions(attempts[i].questions_snapshot, scenarios,
                          KeptPositions(scenarios, ids))

\* C7 witness: restriction [b, a] over configuration [a, b, c] with
\* numberOfQuestions = 1 served [a, b].
C7_Witness ==
  /\ resp.op = "start" /\ resp.status_code = 200 /\ resp.user = "c1"
  /\ RestrictionOf("c1") = <<IdB, IdA>>
  /\ configs[1].config_data = SelectConfig(<<Scenario(IdA), Scenario(IdB), Scenario(IdC)>>,
                                           Some(1))
  /\ resp.questions = <<Scenario(IdA), Scenario(IdB)>>

\* The position of scenario i in the pool sorted by id string, ties in
\* configuration order.
SortedRank(scenarios, i) ==
  1 + Cardinality({j \in 1..Len(scenarios) :
                     \/ StrLess(PyStr(scenarios[j].id), PyStr(scenarios[i].id))
                     \/ PyStr(scenarios[j].id) = PyStr(scenarios[i].id) /\ j < i})

\* served is the first k scenarios of the sorted pool.
IsSortedPrefix(served, scenarios, k) ==
  /\ Len(served) = k
  /\ \A i \in 1..Len(scenarios) :
       SortedRank(scenarios, i) <= k => served[SortedRank(scenarios, i)] = scenarios[i]

\* The unrestricted SJT attempts.
Unrestricted == {i \in 1..Len(attempts) : RestrictionOf(attempts[i].user_id) = << >>}

\* C8 as stated: without a restriction, numberOfQuestions = n smaller than
\* the number of scenarios serves the first n scenarios of the pool sorted by
\* id string, and n unset or not smaller serves all scenarios.
C8_FirstNSorted ==
  \A i \in Unrestricted :
    LET scenarios == configs[1].config_data.scenarios
        settings == configs[1].config_data.settings
        served == attempts[i].questions_snapshot
    IN  IF "numberOfQuestions" \in DOMAIN settings
           /\ settings.numberOfQuestions < Len(scenarios)
        THEN IsSortedPrefix(served, scenarios, Max(0, settings.numberOfQuestions))
        ELSE served = scenarios

\* C8 amended: without a restriction, 1 <= n < number of scenarios serves the
\* first n scenarios of the pool sorted by id string (equal strings in
\* configuration order); n unset, n = 0 or n not smaller than the pool serves
\* all scenarios in configuration order; a negative n serves the sorted pool
\* without its last -n scenarios.  Two starts against the same configuration
\* serve the same list.
C8_SelectionByCount ==
  /\ \A i \in Unrestricted :
       LET scenarios == configs[1].config_data.scenarios
           settings == configs[1].config_data.settings
           served == attempts[i].questions_snapshot
           n == IF "numberOfQuestions" \in DOMAIN settings
                THEN settings.numberOfQuestions ELSE 0
       IN  IF n = 0 \/ n >= Len(scenarios) THEN served = scenarios
           ELSE IF n > 0 THEN IsSortedPrefix(served, scenarios, n)
           ELSE IsSortedPrefix(served, scenarios, Max(0, Len(scenarios) + n))
  /\ \A i, j \in Unrestricted :
       attempts[i].questions_snapshot = attempts[j].questions_snapshot

\* C8 witness: configuration [b, a, c] with numberOfQuestions = 2 served
\* [a, b] to both candidates.
C8_Witness ==
  /\ configs[1].config_data = SelectConfig(<<Scenario(IdB), Scenario(IdA), Scenario(IdC)>>,
                                           Some(2))
  /\ RestrictionOf("c1") = << >>
  /\ Len(attempts) = 2
  /\ \A i \in 1..2 : attempts[i].questions_snapshot = <<Scenario(IdA), Scenario(IdB)>>
  /\ resp.op = "start" /\ resp.questions = <<Scenario(IdA), Scenario(IdB)>>

(***************************************************************************)
(* SpecPreview: one server process; administrator a1 and superadmin sa     *)
(* try the published tests themselves: they ask for availability, start    *)
(* attempts and complete them.  Neither holds an assignment.               *)
(***************************************************************************)
Previewers == {"a1", "sa"}

InitPreview ==
  /\ now = 0
  /\ autoAssign \in BOOLEAN
  /\ configs = PublishedConfigs
  /\ cache = [p \in Procs |-> EmptyDict]
  /\ assignments = {}
  /\ attempts = << >>
  /\ req = [p \in Procs |-> Idle]
  /\ resp = NoResponse
  /\ uuids = 0

NextPreview ==
  \/ \E u \in Previewers, tt \in TestTypes : GetAvailability("p1", u, tt)
  \/ \E u \in Previewers, tt \in TestTypes : StartCheck("p1", u, tt, Nothing)
  \/ StartSelect("p1")
  \/ StartInsert("p1")
  \/ \E u \in Previewers, id \in 1..MaxAttemptRows :
       CompleteRead("p1", u, id, EmptyCompletion)
  \/ CompleteCommit("p1")

SpecPreview == InitPreview /\ [][NextPreview]_vars

\* C11: an availability answer to an administrator or superadmin, for a
\* configured test type and with no attempt of theirs in progress, reports
\* can_start = TRUE however many attempts they have completed.
C11_PreviewAlwaysEligible ==
  (/\ resp.op = "availability" /\ resp.status_code = 200
   /\ Role(resp.user) \in {"admin", "superadmin"}
   /\ resp.configured
   /\ ~HasInProgress(attempts, resp.user, resp.test_type))
  => resp.can_start

(***************************************************************************)
(* SpecRace: two server processes serve the requests on candidate c1's    *)
(* one SJT attempt: c1 stores answers and completes the attempt, and      *)
(* candidate c2 tries to store answers on it too.  Each process handles   *)
(* one request at a time; their database round trips interleave.          *)
(***************************************************************************)
NextRace ==
  \/ StartCheck("p1", "c1", "SJT", Nothing)
  \/ StartSelect("p1")
  \/ StartInsert("p1")
  \/ \E p \in Procs :
       \/ \E u \in {"c1", "c2"}, id \in {1, 2}, payload \in {BaseAnswer, FollowUpAnswer} :
            uuids < MaxAnswers /\ SubmitRead(p, u, id, payload)
       \/ SubmitCommit(p)
       \/ CompleteRead(p, "c1", 1, EmptyCompletion)
       \/ CompleteCommit(p)

SpecRace == InitLedger /\ [][NextRace]_vars

\* The answers an attempt stores.
StoredAnswers(attempt) == Get(attempt.attempt_metadata, "answers", << >>)

\* The stored answers that are follow-ups on the base-question key.
StoredFollowUps(attempt, key) ==
  {i \in 1..Len(StoredAnswers(attempt)) :
     /\ StoredAnswers(attempt)[i].is_follow_up
     /\ IntStr(StoredAnswers(attempt)[i].base_question_index) = key}

SubmitsInFlight == {p \in Procs : req[p].op = "submit"}

\* C12: once the k accepted submit_answer calls on the attempt have all
\* returned, its answers list holds k records, one per call, and the
\* follow-up counter of base question 0 is the number of follow-ups stored,
\* up to the quota, also when two calls read the metadata before either
\* writes it back.  (uuids counts the accepted calls: each draws one id.)
C12_NoLostUpdates ==
  (SubmitsInFlight = {} /\ Len(attempts) >= 1) =>
    /\ Len(StoredAnswers(attempts[1])) = uuids
    /\ {StoredAnswers(attempts[1])[i].id : i \in 1..uuids} = 1..uuids
    /\ FollowUpCounter(attempts[1], IntStr(0)) =
         Min(Cardinality(StoredFollowUps(attempts[1], IntStr(0))),
             _derive_max_follow_ups(SjtConfigA))

\* The step answers a submit_answer request with a failure.
SubmitFails == resp' # resp /\ resp'.op = "submit" /\ resp'.status_code # 200

\* C14: submit_answer fails unless the attempt exists, belongs to a candidate
\* caller and is in_progress, checked in that order (404, then 403, then
\* 400); a failing call changes no attempt; and no step changes the answers
\* of an attempt that is already completed.
C14_SubmitGuarded ==
  [][/\ SubmitFails =>
          /\ attempts' = attempts
          /\ resp'.status_code =
               IF ~AttemptExists(attempts, resp'.attempt_id) THEN 404
               ELSE IF AccessDenied(attempts, resp'.user, resp'.attempt_id) THEN 403
               ELSE 400
          /\ resp'.status_code = 400 =>
               attempts[resp'.attempt_id].status # "in_progress"
     /\ \A p \in Procs :
          (req[p] = Idle /\ req'[p].op = "submit") =>
            /\ AttemptExists(attempts, req'[p].attempt_id)
            /\ ~AccessDenied(attempts, req'[p].user, req'[p].attempt_id)
            /\ attempts[req'[p].attempt_id].status = "in_progress"
     /\ \A i \in 1..Len(attempts) :
          attempts[i].status = "completed" =>
            StoredAnswers(attempts'[i]) = StoredAnswers(attempts[i])]_vars

\* The start request of process p computed an attempt number that a stored
\* attempt of the same user and test type already has.
Collides(p) ==
  /\ req[p].op = "start" /\ req[p].pc = "insert"
  /\ \E i \in RowsOf(req[p].user, req[p].test_type) :
       attempts[i].attempt_number = req[p].attempt_number

\* C13 (checked under Spec): when a start_attempt collides with a stored
\* attempt on the attempt number, the call ends without adding a row and with
\* a state-conflict outcome that is neither a validation error (400, 422)
\* nor the generic server error (500).
C13_CollisionIsConflict ==
  [][\A p \in Procs :
       (Collides(p) /\ req'[p] = Idle) =>
         /\ attempts' = attempts
         /\ resp'.op = "start"
         /\ resp'.status_code \notin {200, 400, 422, 500}]_vars

(***************************************************************************)
(* SpecAccess: two server processes; candidates c1 and c2 each hold an    *)
(* SJT assignment and start an attempt; c1, c2 and administrator a1 read, *)
(* answer, complete and list attempts by any id.                          *)
(***************************************************************************)
Callers == {"c1", "c2", "a1"}
AttemptIds == 1..2

InitAccess ==
  /\ now = 0
  /\ autoAssign = FALSE
  /\ configs = <<Configuration(1, "t1", "sjt", "tenant", SjtConfigA, 1)>>
  /\ cache = [p \in Procs |-> EmptyDict]
  /\ assignments = {TestAssignment("c1", "SJT", 1, EmptyDict),
                    TestAssignment("c2", "SJT", 1, EmptyDict)}
  /\ attempts = << >>
  /\ req = [p \in Procs |-> Idle]
  /\ resp = NoResponse
  /\ uuids = 0

NextAccess ==
  \/ \E u \in {"c1", "c2"} : StartCheck("p1", u, "SJT", Nothing)
  \/ StartSelect("p1")
  \/ StartInsert("p1")
  \/ \E p \in Procs, u \in Callers, id \in AttemptIds :
       \/ GetAttempt(p, u, id)
       \/ uuids < MaxFrameAnswers /\ SubmitRead(p, u, id, BaseAnswer)
       \/ CompleteRead(p, u, id, EmptyCompletion)
  \/ \E p \in Procs : SubmitCommit(p) \/ CompleteCommit(p)
  \/ \E u \in Callers, test_type \in {Nothing, Some("sjt")},
        status_filter \in {Nothing, Some("completed")} :
       ListAttempts("p2", u, test_type, status_filter)

SpecAccess == InitAccess /\ [][NextAccess]_vars

\* The answer is about one attempt, by id.
OnAttempt(r) == r.op \in {"get_attempt", "submit", "complete"}

\* C15: a candidate's get_attempt, submit_answer or complete_attempt on an
\* attempt of another user is answered 403 and changes nothing; no such
\* request is accepted for a later commit; an attempt changes only by the
\* commit of a request of its owner or of a non-candidate; and list_attempts
\* returns only attempts whose user_id is the caller's.
C15_OwnAttemptsOnly ==
  [][/\ (/\ resp' # resp /\ OnAttempt(resp')
         /\ AttemptExists(attempts, resp'.attempt_id)
         /\ AccessDenied(attempts, resp'.user, resp'.attempt_id))
        => /\ resp'.status_code = 403
           /\ UNCHANGED <<now, autoAssign, configs, cache, assignments, attempts,
                          req, uuids>>
     /\ \A p \in Procs :
          (req[p] = Idle /\ req'[p].op \in {"submit", "complete"}) =>
            (Role(req'[p].user) = "candidate" =>
               attempts[req'[p].attempt_id].user_id = req'[p].user)
     /\ \A i \in 1..Len(attempts) :
          attempts'[i] # attempts[i] =>
            \E p \in Procs :
              /\ req[p].op \in {"submit", "complete"} /\ req'[p] = Idle
              /\ req[p].attempt_id = i
              /\ Role(req[p].user) = "candidate" => req[p].user = attempts[i].user_id
     /\ resp'.op = "list_attempts" =>
          \A i \in 1..Len(resp'.attempts) : resp'.attempts[i].user_id = resp'.user]_vars

\* C15 witness: c2 asked to store an answer on c1's in_progress attempt and
\* was refused, c1 and c2 both own attempts, and the attempt is untouched.
C15_Witness ==
  /\ resp.op = "submit" /\ resp.status_code = 403 /\ resp.user = "c2"
  /\ attempts[resp.attempt_id].user_id = "c1"
  /\ attempts[resp.attempt_id].status = "in_progress"
  /\ StoredAnswers(attempts[resp.attempt_id]) = << >>
  /\ RowsOf("c2", "SJT") # {}

(***************************************************************************)
(* SpecAtomic: two server processes serve candidate c1's start requests,   *)
(* with a valid and an invalid test type, with and without an assignment  *)
(* and with auto-assignment on or off, while administrator a1 retires the *)
(* SJT configuration and the configuration cache expires.                 *)
(***************************************************************************)
InitAtomic ==
  /\ now = 0
  /\ autoAssign \in BOOLEAN
  /\ configs = <<Configuration(1, "t1", "sjt", "tenant", SjtConfigA, 1)>>
  /\ cache = [p \in Procs |-> EmptyDict]
  /\ assignments \in {{}, {TestAssignment("c1", "SJT", 2, EmptyDict)}}
  /\ attempts = << >>
  /\ req = [p \in Procs |-> Idle]
  /\ resp = NoResponse
  /\ uuids = 0

NextAtomic ==
  \/ \E p \in Procs :
       \/ \E test_type \in {"SJT", "xyz"} : StartCheck(p, "c1", test_type, Nothing)
       \/ StartSelect(p)
       \/ StartInsert(p)
  \/ DeleteConfiguration("p2", "a1", 1)
  \/ Tick

SpecAtomic == InitAtomic /\ [][NextAtomic]_vars

\* What get_availability would answer user u on process p in this state.
EligibilityResult(p, u, tt) ==
  get_test_availability(_get_config(cache[p], now, configs, TenantOf(u), tt).config,
                        u, tt, assignments, attempts, autoAssign).response

\* A stored attempt is complete: snapshot, its length as max_questions, and
\* the configuration's id and version in the metadata.
WellFormedAttempt(a) ==
  /\ a.max_questions = Len(a.questions_snapshot)
  /\ {"config_id", "config_version"} \subseteq DOMAIN a.attempt_metadata

\* A step of start_attempt (the other steps of SpecAtomic move the clock or
\* the configurations) that inserts no row.
StartStepWithoutInsert ==
  /\ now' = now /\ configs' = configs
  /\ Len(attempts') = Len(attempts)

\* C16: every stored attempt has its snapshot, max_questions and the config
\* id and version; and every step of a start_attempt that does not insert
\* (so every step of a call that fails: invalid test type, not eligible,
\* configuration missing at use time, uniqueness violation) leaves the
\* attempts and every process's eligibility answer for the user unchanged.
C16_StartAllOrNothing ==
  [][/\ \A i \in 1..Len(attempts') : WellFormedAttempt(attempts'[i])
     /\ StartStepWithoutInsert =>
          /\ attempts' = attempts
          /\ \A p \in Procs, tt \in TestTypes :
               EligibilityResult(p, "c1", tt)' = EligibilityResult(p, "c1", tt)]_vars

\* C16 witness: c1 had no assignment, the start auto-assigned the test,
\* passed the eligibility check and then found the configuration retired
\* and the cache entry expired: 500, no attempt stored.
C16_Witness ==
  /\ resp.op = "start" /\ resp.status_code = 500
  /\ resp.detail = "Configuration missing"
  /\ attempts = << >>
  /\ assignments # {}
  /\ autoAssign

\* The configuration rows a new attempt may say it was started from: active,
\* with the recorded id and version.
ActiveSource(a) ==
  {i \in 1..Len(configs) :
     /\ configs[i].is_active
     /\ configs[i].id = a.attempt_metadata.config_id
     /\ configs[i].version = a.attempt_metadata.config_version}

\* C17 (checked under SpecElig): when an attempt is created, the config_id
\* and config_version in its metadata name a configuration that is active at
\* that moment, and its snapshot is the selection from that configuration's
\* content.
C17_StartedFromActiveConfig ==
  [][Len(attempts') = Len(attempts) + 1 =>
       LET a == attempts'[Len(attempts')] IN
       \E i \in ActiveSource(a) :
         a.questions_snapshot =
           SelectSJT(configs[i].config_data, AssignmentOf(assignments, a.user_id, "SJT"))]_vars

(***************************************************************************)
(* SpecQuota: the follow-up quota and the follow-up decision on drawn     *)
(* settings.  The SJT and the JDT configuration carry the same settings:  *)
(* any of followUpCount, aiGeneratedQuestions and aiQuestions, each       *)
(* absent or with a value of QuotaValues; c1 starts one attempt of each   *)
(* type and stores base answers and follow-up answers on them.            *)
(***************************************************************************)
QuotaKeys == {"followUpCount", "aiGeneratedQuestions", "aiQuestions"}
QuotaValues == {-1, 0, 2, MAX_FOLLOW_UP_CAP + 1}
QuotaSettings == UNION {[S -> QuotaValues] : S \in SUBSET QuotaKeys}

InitQuota ==
  /\ now = 0
  /\ autoAssign = FALSE
  /\ \E settings \in QuotaSettings :
       configs =
         <<Configuration(1, "t1", "sjt", "tenant",
                         [scenarios |-> <<Scenario(S1)>>, settings |-> settings], 1),
           Configuration(2, "t1", "jdt", "tenant",
                         [roles |-> JdtConfigA.roles, settings |-> settings], 1)>>
  /\ cache = [p \in Procs |-> EmptyDict]
  /\ assignments = {TestAssignment("c1", "SJT", 1, EmptyDict),
                    TestAssignment("c1", "JDT", 1, EmptyDict)}
  /\ attempts = << >>
  /\ req = [p \in Procs |-> Idle]
  /\ resp = NoResponse
  /\ uuids = 0

NextQuota ==
  \/ \E tt \in TestTypes : StartCheck("p1", "c1", tt, Nothing)
  \/ StartSelect("p1")
  \/ StartInsert("p1")
  \/ \E id \in AttemptIds, payload \in {BaseAnswer, FollowUpAnswer} :
       uuids < MaxQuotaAnswers /\ SubmitRead("p1", "c1", id, payload)
  \/ SubmitCommit("p1")

SpecQuota == InitQuota /\ [][NextQuota]_vars

Submitted == resp.op = "submit" /\ resp.status_code = 200

\* C18: on every stored answer, can_generate_follow_up is TRUE exactly when
\* (not a follow-up and max_follow_ups > 0) or (a follow-up and
\* remaining_follow_ups > 0); it is FALSE when a follow-up leaves
\* remaining_follow_ups = 0 and on every JDT attempt; and
\* remaining_follow_ups = max(0, max_follow_ups - total_follow_ups_for_base).
C18_FollowUpDecision ==
  Submitted =>
    /\ resp.can_generate_follow_up <=>
         \/ ~resp.answer.is_follow_up /\ resp.max_follow_ups > 0
         \/ resp.answer.is_follow_up /\ resp.remaining_follow_ups > 0
    /\ (resp.answer.is_follow_up /\ resp.remaining_follow_ups = 0) =>
         ~resp.can_generate_follow_up
    /\ attempts[resp.attempt_id].test_type = "JDT" => ~resp.can_generate_follow_up
    /\ resp.remaining_follow_ups =
         Max(0, resp.max_follow_ups - resp.total_follow_ups_for_base)

\* C18 witness: with quota 2, the second follow-up on base question 0 left
\* nothing of the quota and was told not to generate another.
C18_Witness ==
  /\ Submitted
  /\ attempts[resp.attempt_id].test_type = "SJT"
  /\ resp.answer.is_follow_up
  /\ resp.max_follow_ups = 2 /\ resp.total_follow_ups_for_base = 2
  /\ resp.remaining_follow_ups = 0
  /\ ~resp.can_generate_follow_up

\* The quota by strict precedence on presence, clamped to 0..5.
QuotaByPresence(settings) ==
  LET v == IF "followUpCount" \in DOMAIN settings THEN settings.followUpCount
           ELSE IF "aiGeneratedQuestions" \in DOMAIN settings
           THEN settings.aiGeneratedQuestions
           ELSE IF "aiQuestions" \in DOMAIN settings THEN settings.aiQuestions
           ELSE 1
  IN  Max(0, Min(v, MAX_FOLLOW_UP_CAP))

\* C19: the max_follow_ups of every stored answer is, on an SJT attempt, the
\* first present of followUpCount, aiGeneratedQuestions, aiQuestions (else 1)
\* clamped to 0..5, a present 0 giving 0; on a JDT attempt it is 0.
C19_QuotaByPresence ==
  Submitted =>
    resp.max_follow_ups =
      IF attempts[resp.attempt_id].test_type = "SJT"
      THEN QuotaByPresence(configs[1].config_data.settings)
      ELSE 0

(***************************************************************************)
(* SpecResolve: the resolver on drawn tables.  The configurations table   *)
(* holds up to MaxConfigRows rows, each of type sjt or jdt, active or     *)
(* retired, and tenant-scoped of t1, tenant-scoped of t2 or system-scoped *)
(* without a tenant; c1 (tenant t1), d1 (tenant t2) and su (no tenant)    *)
(* ask for the SJT availability on one process while a1 publishes and     *)
(* retires t1's configurations and the cache expires.                     *)
(***************************************************************************)
Tenants == {"t1", "t2", NoTenant}
RowOwners == {<<"t1", "tenant">>, <<"t2", "tenant">>, <<NoTenant, "system">>}

\* The tables with n rows; row ids are given in the order of creation.
ConfigTables(n) ==
  {[i \in 1..n |->
      [Configuration(i, owner[i][1], type[i], owner[i][2],
                     IF type[i] = "sjt" THEN SjtConfigA ELSE JdtConfigA, 1)
         EXCEPT !.is_active = active[i]]] :
     owner \in [1..n -> RowOwners], type \in [1..n -> {"sjt", "jdt"}],
     active \in [1..n -> BOOLEAN]}

InitResolve ==
  /\ now = 0
  /\ autoAssign = FALSE
  /\ configs \in UNION {ConfigTables(n) : n \in 0..MaxConfigRows}
  /\ cache = [p \in Procs |-> EmptyDict]
  /\ assignments = {}
  /\ attempts = << >>
  /\ req = [p \in Procs |-> Idle]
  /\ resp = NoResponse
  /\ uuids = 0

NextResolve ==
  \/ \E u \in {"c1", "d1", "su"} : GetAvailability("p1", u, "SJT")
  \/ CreateConfiguration("p1", "a1", "sjt", "tenant", SjtConfigB)
  \/ \E id \in 1..MaxConfigRows : DeleteConfiguration("p1", "a1", id)
  \/ Tick

SpecResolve == InitResolve /\ [][NextResolve]_vars

\* The active rows of the type that belong to the tenant / are system-scoped.
OwnActive(tenant_id, tt) ==
  {i \in 1..Len(configs) :
     /\ configs[i].is_active /\ configs[i].config_type = Lower(tt)
     /\ tenant_id # NoTenant /\ configs[i].tenant_id = tenant_id}

SystemActive(tt) ==
  {i \in 1..Len(configs) :
     /\ configs[i].is_active /\ configs[i].config_type = Lower(tt)
     /\ configs[i].scope = "system"}

\* The resolution from the table as it is now.
ResolvedFromTable(tenant_id, tt) ==
  IF OwnActive(tenant_id, tt) # {} THEN LatestRow(configs, OwnActive(tenant_id, tt))
  ELSE IF SystemActive(tt) # {} THEN LatestRow(configs, SystemActive(tt))
  ELSE Nothing

\* What the resolver of process p1 returns for (tenant, type) in this state.
Resolved(tenant_id, tt) == _get_config(cache["p1"], now, configs, tenant_id, tt).config

\* C20 as stated: whatever the state of the cache, the resolver returns the
\* tenant's active configuration of the type when one exists, otherwise the
\* active system-scoped one, otherwise nothing.
C20_ResolvesFromTable ==
  \A tenant_id \in Tenants, tt \in TestTypes :
    Resolved(tenant_id, tt) = ResolvedFromTable(tenant_id, tt)

\* C20 amended: on a cache miss the resolver returns the resolution from the
\* table, which is an active row; on a cache hit it returns the cached row,
\* cached at most CONFIG_TTL_SECONDS ago; and in both cases the row is of the
\* type asked for and is the tenant's own or system-scoped.
C20_ResolverContract ==
  \A tenant_id \in Tenants, tt \in TestTypes :
    LET key == _cache_key(tenant_id, tt)
        cfg == Resolved(tenant_id, tt)
    IN  /\ ~CacheFresh(cache["p1"], key, now) =>
             /\ cfg = ResolvedFromTable(tenant_id, tt)
             /\ IsSome(cfg) => The(cfg).is_active
        /\ CacheFresh(cache["p1"], key, now) =>
             /\ cfg = Some(cache["p1"][key].config)
             /\ cache["p1"][key].expires_at <= now + CONFIG_TTL_SECONDS
        /\ IsSome(cfg) =>
             /\ The(cfg).config_type = Lower(tt)
             /\ The(cfg).tenant_id = tenant_id \/ The(cfg).scope = "system"

\* C20 witness: c1 was answered from the system-scoped configuration, on a
\* cache miss, although tenant t2 has a later active tenant-scoped SJT row.
C20_Witness ==
  /\ resp.op = "availability" /\ resp.user = "c1" /\ resp.configured
  /\ OwnActive("t1", "SJT") = {}
  /\ _cache_key("t1", "SJT") \in DOMAIN cache["p1"]
  /\ cache["p1"][_cache_key("t1", "SJT")].config.scope = "system"
  /\ \E i \in OwnActive("t2", "SJT") :
       /\ configs[i].scope = "tenant"
       /\ i > cache["p1"][_cache_key("t1", "SJT")].config.id

\* The last write to the configurations table is at least one TTL old.
TableSettled == \A i \in 1..Len(configs) : configs[i].updated_at + CONFIG_TTL_SECONDS <= now

\* The step is a lookup: get_availability answered and the clock stood still.
LookupStep == resp'.op = "availability" /\ now' = now

\* C21 (checked under SpecResolve): for every (tenant, test type) key, a
\* lookup before the expiry of the cached entry returns the cached
\* configuration whatever the table holds now; a lookup at or after the
\* expiry returns the resolution from the table; so once the last
\* publication is CONFIG_TTL_SECONDS old every lookup returns the
\* resolution from the table.  A lookup changes nothing but the cache of the
\* serving process (and the answer).
C21_ExpiryOnlyInvalidation ==
  [][/\ \A tenant_id \in Tenants, tt \in TestTypes :
          LET key == _cache_key(tenant_id, tt)
              cached == key \in DOMAIN cache["p1"]
              returned == Resolved(tenant_id, tt)
              stored == ResolvedFromTable(tenant_id, tt)
          IN  /\ (cached /\ now < cache["p1"][key].expires_at) =>
                   returned = Some(cache["p1"][key].config)
              /\ (cached /\ now >= cache["p1"][key].expires_at) => returned = stored
              /\ ~cached => returned = stored
              /\ TableSettled => returned = stored
     /\ LookupStep =>
          /\ UNCHANGED <<now, autoAssign, configs, assignments, attempts, req, uuids>>
          /\ cache'["p2"] = cache["p2"]]_vars

\* C21 witness: t1's configuration was cached at time 0 and retired at time
\* 0; the cache entry has just expired and c1 is told "not configured".
C21_Witness ==
  /\ now = CONFIG_TTL_SECONDS
  /\ resp.op = "availability" /\ resp.user = "c1" /\ ~resp.configured
  /\ _cache_key("t1", "SJT") \in DOMAIN cache["p1"]
  /\ cache["p1"][_cache_key("t1", "SJT")].expires_at = now
  /\ ~configs[cache["p1"][_cache_key("t1", "SJT")].config.id].is_active
  /\ TableSettled

(***************************************************************************)
(* SpecRoles: the JDT selection of start_test_attempt on drawn inputs.    *)
(* The published JDT configuration has up to MaxRoles roles out of        *)
(* JdtRoles, numberOfQuestions unset or in -1..3, aiGeneratedQuestions    *)
(* and aiQuestions unset or small; c1 starts one JDT attempt, asking for  *)
(* no role, for a configured role name, for that name in another case,   *)
(* for the empty name or for an unknown one.                              *)
(***************************************************************************)
JdtQuestion(n) == [text |-> <<"q", n>>, preferredAnswer |-> <<"a", n>>, competency |-> "k"]

JdtRoles ==
  {[roleName |-> "Engineer", questions |-> <<JdtQuestion(1), JdtQuestion(2)>>],
   [roleName |-> "engineer", questions |-> <<JdtQuestion(3)>>],
   [roleName |-> "Ops", questions |-> << >>]}

RoleLists == UNION {[1..n -> JdtRoles] : n \in 0..MaxRoles}

JdtSettings ==
  {s \in UNION {[S -> -1..3] :
                  S \in SUBSET {"numberOfQuestions", "aiGeneratedQuestions", "aiQuestions"}} :
     /\ "aiGeneratedQuestions" \in DOMAIN s => s.aiGeneratedQuestions \in {-1, 0, 2}
     /\ "aiQuestions" \in DOMAIN s => s.aiQuestions \in {0, 1}}

RoleRequests == {Nothing, Some("Engineer"), Some("engineer"), Some("ENGINEER"), Some("")}

InitRoles ==
  /\ now = 0
  /\ autoAssign = FALSE
  /\ \E roles \in RoleLists, settings \in JdtSettings :
       configs = <<Configuration(1, "t1", "jdt", "tenant",
                                 [roles |-> roles, settings |-> settings], 1)>>
  /\ cache = [p \in Procs |-> EmptyDict]
  /\ assignments = {TestAssignment("c1", "JDT", 1, EmptyDict)}
  /\ attempts = << >>
  /\ req = [p \in Procs |-> Idle]
  /\ resp = NoResponse
  /\ uuids = 0

NextRoles ==
  \/ \E role_category \in RoleRequests : StartCheck("p1", "c1", "JDT", role_category)
  \/ StartSelect("p1")
  \/ StartInsert("p1")

SpecRoles == InitRoles /\ [][NextRoles]_vars

Started == resp.op = "start" /\ resp.status_code = 200

\* The role a JDT start uses: the first one whose name is the requested
\* one, else the first configured one; 0 when no role is configured.
RoleUsed(roles, role_category) ==
  LET named == {i \in 1..Len(roles) :
                  IsSome(role_category) /\ roles[i].roleName = The(role_category)}
  IN  IF named # {} THEN CHOOSE i \in named : \A j \in named : i <= j
      ELSE IF Len(roles) > 0 THEN 1 ELSE 0

\* The served form of a configured question.
ServedQuestion(q) ==
  [question |-> q.text, preferredAnswer |-> q.preferredAnswer, competency |-> q.competency]

\* A served JDT list: the first `manual` questions of the role, then
\* `stubs` placeholders.
IsJdtList(questions, role_qs, manual, stubs) ==
  /\ Len(questions) = manual + stubs
  /\ \A i \in 1..manual : questions[i] = ServedQuestion(role_qs[i])
  /\ \A i \in (manual + 1)..(manual + stubs) : questions[i] = AI_PLACEHOLDER

\* The questions of the role used by the start just answered.
RoleQuestionsUsed ==
  LET roles == configs[1].config_data.roles
      used == RoleUsed(roles, resp.attempt.attempt_metadata.role_category)
  IN  IF used = 0 THEN << >> ELSE roles[used].questions

\* The stub count as the claim words it: aiGeneratedQuestions, or
\* aiQuestions, or 0.
StubCount(settings) ==
  IntOr(IntOr(Get(settings, "aiGeneratedQuestions", 0), Get(settings, "aiQuestions", 0)), 0)

\* C22 as stated: the served list is the role's questions truncated to
\* numberOfQuestions when it is set (all of them when unset), then exactly
\* StubCount placeholders, and max_questions is its length.
C22_JdtSelection ==
  Started =>
    LET settings == configs[1].config_data.settings
        qs == RoleQuestionsUsed
        manual == IF "numberOfQuestions" \in DOMAIN settings
                  THEN Min(Max(0, settings.numberOfQuestions), Len(qs))
                  ELSE Len(qs)
    IN  /\ IsJdtList(resp.questions, qs, manual, Max(0, StubCount(settings)))
        /\ resp.attempt.max_questions = Len(resp.questions)

\* C22 amended: numberOfQuestions = 0 counts as unset (all questions), a
\* negative numberOfQuestions = -k drops the role's last k questions, and a
\* negative stub count gives no stub.
C22_JdtSelectionByCount ==
  Started =>
    LET settings == configs[1].config_data.settings
        qs == RoleQuestionsUsed
        n == Get(settings, "numberOfQuestions", 0)
        manual == IF n = 0 THEN Len(qs)
                  ELSE IF n > 0 THEN Min(n, Len(qs))
                  ELSE Max(0, Len(qs) + n)
    IN  /\ IsJdtList(resp.questions, qs, manual, Max(0, StubCount(settings)))
        /\ resp.attempt.max_questions = Len(resp.questions)
        /\ attempts[resp.attempt.id].questions_snapshot = resp.questions

\* C22 witness: roles [Engineer, engineer], the request names "engineer",
\* numberOfQuestions = 1 and aiGeneratedQuestions = 2: question 3 and two
\* placeholders were served.
C22_Witness ==
  /\ Started
  /\ Len(configs[1].config_data.roles) = 2
  /\ configs[1].config_data.roles[1].roleName = "Engineer"
  /\ configs[1].config_data.roles[2].roleName = "engineer"
  /\ resp.attempt.attempt_metadata.role_category = Some("engineer")
  /\ resp.questions = <<ServedQuestion(JdtQuestion(3)), AI_PLACEHOLDER, AI_PLACEHOLDER>>

(***************************************************************************)
(* SpecStart: one server process serves candidate c1's start and complete *)
(* requests for both test types; a start may name a role category         *)
(* whatever the test type.                                                *)
(***************************************************************************)
NextStart ==
  \/ \E tt \in TestTypes, role_category \in {Nothing, Some("Engineer")} :
       StartCheck("p1", "c1", tt, role_category)
  \/ StartSelect("p1")
  \/ StartInsert("p1")
  \/ \E id \in 1..MaxAttemptRows : CompleteRead("p1", "c1", id, EmptyCompletion)
  \/ CompleteCommit("p1")

SpecStart == Init /\ [][NextStart]_vars

\* The active configuration row of a test type in the table.
ConfigFor(tt) ==
  The(QueryActiveConfig(configs, "t1", tt))

\* C23: the step that stores a new attempt answers can_start = TRUE and
\* remaining_attempts = max(0, max_attempts - attempt_number) >= 0; the
\* stored attempt has max_questions = length of its snapshot, the snapshot
\* is the list returned inline, and its metadata holds the id and version
\* of the configuration consumed and the requested role category, none for
\* an SJT attempt.
C23_StartResult ==
  [][Len(attempts') = Len(attempts) + 1 =>
       \E p \in Procs :
         /\ req[p].op = "start" /\ req'[p] = Idle
         /\ LET r == req[p]
                a == attempts'[Len(attempts')]
                assignment == The(AssignmentOf(assignments, r.user, r.test_type))
            IN  /\ resp'.op = "start" /\ resp'.status_code = 200
                /\ resp'.can_start
                /\ resp'.remaining_attempts =
                     Max(0, assignment.max_attempts - a.attempt_number)
                /\ resp'.remaining_attempts >= 0
                /\ a.max_questions = Len(a.questions_snapshot)
                /\ a.questions_snapshot = resp'.questions
                /\ resp'.attempt = from_orm(a)
                /\ a.attempt_metadata.config_id = ConfigFor(r.test_type).id
                /\ a.attempt_metadata.config_version = ConfigFor(r.test_type).version
                /\ a.attempt_metadata.role_category =
                     IF r.test_type = "SJT" THEN Nothing ELSE r.role_category]_vars

(***************************************************************************)
(* SpecIdem: the deployment of SpecElig with the clock running, so that   *)
(* the cached configuration can run out between two calls; a1 assigns and *)
(* removes c1's test and retires the configuration.                       *)
(***************************************************************************)
NextIdem ==
  \/ \E u \in {"c1", "a1"} : GetAvailability("p1", u, "SJT")
  \/ StartCheck("p1", "c1", "SJT", Nothing)
  \/ StartSelect("p1")
  \/ StartInsert("p1")
  \/ BulkAssign("p1", "a1", "c1", "SJT", 2, << >>)
  \/ RemoveAssignment("p1", "a1", "c1", "SJT")
  \/ DeleteConfiguration("p1", "a1", 1)
  \/ Tick

SpecIdem == InitElig /\ [][NextIdem]_vars

\* The evaluator has just answered caller u about tt and answers them again:
\* the last response is an availability response for the same caller and no
\* request is being served.
RepeatedCall ==
  /\ resp.op = "availability" /\ resp.status_code = 200
  /\ resp'.op = "availability" /\ resp'.status_code = 200
  /\ resp'.user = resp.user /\ resp'.test_type = resp.test_type
  /\ req' = req /\ now' = now

\* The cache entry the evaluator reads for resp.user has run out.
EntryExpired ==
  LET key == _cache_key(TenantOf(resp.user), resp.test_type)
  IN  key \in DOMAIN cache["p1"] /\ ~CacheFresh(cache["p1"], key, now)

\* The step adds the assignment the evaluator creates for a candidate
\* without one, auto-assignment being on and a configuration resolved.
AutoAssignStep ==
  \E u \in Users, tt \in TestTypes :
    /\ Role(u) = "candidate" /\ autoAssign
    /\ ~IsSome(AssignmentOf(assignments, u, tt))
    /\ IsSome(_get_config(cache["p1"], now, configs, TenantOf(u), tt).config)
    /\ assignments' = assignments \cup {TestAssignment(u, tt, MAX_ATTEMPTS_DEFAULT, EmptyDict)}

\* A step of bulk_assign_tests_to_users or remove_test_assignment.
AdminAssignStep ==
  \/ resp'.op = "bulk_assign" /\ assignments' = assignments \cup resp'.created
  \/ resp'.op = "remove_assignment" /\ \E a \in assignments : assignments' = assignments \ {a}

\* The step is one answer of get_availability.
AvailabilityStep == resp'.op = "availability" /\ resp' # resp

\* C24 as stated (checked under SpecIdem): get_availability changes no
\* attempt and no configuration; called again by the same user for the same
\* test type with no operation in between it returns the same result; and
\* the only assignment it creates is one for a candidate who has none, with
\* auto-assignment on and a configuration resolved.
C24_AvailabilityIdempotent ==
  [][/\ AvailabilityStep => UNCHANGED <<attempts, configs, now, autoAssign>>
     /\ RepeatedCall => resp' = resp
     /\ (assignments' # assignments) => (AdminAssignStep \/ AutoAssignStep)]_vars

\* C24 amended: as above, but a repeated call returns the same result on
\* condition that the cache entry of the caller's (tenant, test type) did
\* not run out between the two calls.
C24_IdempotentWithinCacheLife ==
  [][/\ AvailabilityStep => UNCHANGED <<attempts, configs, now, autoAssign>>
     /\ (RepeatedCall /\ ~EntryExpired) => resp' = resp
     /\ (RepeatedCall /\ ~EntryExpired) => assignments' = assignments
     /\ (assignments' # assignments) => (AdminAssignStep \/ AutoAssignStep)]_vars

\* C24 witness: with auto-assignment on, c1 was given the default
\* assignment by the evaluator and is told so by a later call.
C24_Witness ==
  /\ autoAssign /\ now = CONFIG_TTL_SECONDS
  /\ resp.op = "availability" /\ resp.user = "c1" /\ resp.assigned /\ resp.configured
  /\ resp.assignment_status = Some("assigned")
  /\ assignments = {TestAssignment("c1", "SJT", MAX_ATTEMPTS_DEFAULT, EmptyDict)}
  /\ _cache_key("t1", "SJT") \in DOMAIN cache["p1"]
  /\ cache["p1"][_cache_key("t1", "SJT")].expires_at = now + CONFIG_TTL_SECONDS

(***************************************************************************)
(* SpecAssign: the writers of table test_assignments, one action per      *)
(* group of database round trips, on two server processes: candidate c1   *)
(* polls get_availability with auto-assignment on or off, administrator   *)
(* a1 bulk-assigns c1 tests (a request may name a test type twice) and    *)
(* removes assignments.                                                   *)
(***************************************************************************)
\* A test_assignments row with its primary key.  uuid.uuid4() is modelled
\* by the creating process and the row's position in the request: distinct
\* for rows that can be in the table together.
AssignmentRow(id, user_id, test_type, max_attempts, custom_config) ==
  [id |-> id] @@ TestAssignment(user_id, test_type, max_attempts, custom_config)

\* A commit that checks no constraint.
AssignmentConflictOff(asg, rows) == FALSE

\* ux_user_test_assignment at commit: a pending row repeats the
\* (user_id, test_type) of a stored row or of another pending row.
AssignmentConflict(asg, rows) ==
  \/ \E i \in 1..Len(rows) : IsSome(AssignmentOf(asg, rows[i].user_id, rows[i].test_type))
  \/ \E i, j \in 1..Len(rows) :
       i < j /\ rows[i].user_id = rows[j].user_id /\ rows[i].test_type = rows[j].test_type

\* get_test_availability up to the lookup of the assignment (lines 62-86).
AvailabilityRead(p, u, test_type) ==
  /\ req[p] = Idle
  /\ LET tt == Upper(test_type)
         g == _get_config(cache[p], now, configs, TenantOf(u), tt)
         found == AssignmentOf(assignments, u, tt)
     IN  /\ tt \in TestTypes
         /\ cache' = [cache EXCEPT ![p] = g.cache]
         /\ IF AutoAssigns(u, found, IsSome(g.config), autoAssign)
            THEN /\ req' = [req EXCEPT ![p] =
                              [op |-> "availability", pc |-> "assign", user |-> u,
                               test_type |-> tt, config |-> g.config]]
                 /\ UNCHANGED resp
            ELSE /\ resp' = get_test_availability(g.config, u, tt, assignments,
                                                  attempts, FALSE).response
                 /\ UNCHANGED req
  /\ UNCHANGED <<now, autoAssign, configs, assignments, attempts, uuids>>

\* get_test_availability from the commit of the new assignment (lines
\* 87-160).  A commit the unique constraint rejects is caught and logged
\* (lines 103-104): the handler goes on without an assignment, and its next
\* query either works on the rolled-back session or fails with it.
AvailabilityCommit(p) ==
  /\ req[p].op = "availability" /\ req[p].pc = "assign"
  /\ LET r == req[p]
         row == AssignmentRow(<<p, 0>>, r.user, r.test_type, MAX_ATTEMPTS_DEFAULT,
                              EmptyDict)
     IN  IF AssignmentConflict(assignments, <<row>>)
         THEN /\ UNCHANGED assignments
              /\ resp' \in {get_test_availability(r.config, r.user, r.test_type, {},
                                                  attempts, FALSE).response,
                            Failure("availability", r.user, 500,
                                    "Internal server error")}
         ELSE /\ assignments' = assignments \cup {row}
              /\ resp' = get_test_availability(r.config, r.user, r.test_type,
                                               assignments', attempts,
                                               FALSE).response
  /\ req' = [req EXCEPT ![p] = Idle]
  /\ UNCHANGED <<now, autoAssign, configs, cache, attempts, uuids>>

\* bulk_assign_tests_to_users for one candidate up to db.commit() (lines
\* 182-216).  The session does not autoflush (database.py:48), so the
\* lookup of an existing row does not see the rows the loop has added.
BulkAssignRead(p, admin, u, test_types, max_attempts) ==
  /\ req[p] = Idle
  /\ Role(admin) # "candidate"
  /\ Role(u) = "candidate"
  /\ LET wanted(i) == /\ Upper(test_types[i]) \in TestTypes
                       /\ ~IsSome(AssignmentOf(assignments, u, Upper(test_types[i])))
         kept == SelectSeq([i \in 1..Len(test_types) |-> i], wanted)
         pending == [k \in 1..Len(kept) |->
                       AssignmentRow(<<p, kept[k]>>, u, Upper(test_types[kept[k]]),
                                     max_attempts, EmptyDict)]
     IN  req' = [req EXCEPT ![p] = [op |-> "bulk_assign", pc |-> "commit",
                                    user |-> admin, pending |-> pending]]
  /\ UNCHANGED <<now, autoAssign, configs, cache, assignments, attempts, resp, uuids>>

\* bulk_assign_tests_to_users: db.commit() and the response (lines 218-222).
BulkAssignCommit(p) ==
  /\ req[p].op = "bulk_assign" /\ req[p].pc = "commit"
  /\ IF AssignmentConflict(assignments, req[p].pending)
     THEN /\ UNCHANGED assignments
          /\ resp' = Failure("bulk_assign", req[p].user, 500, "Internal server error")
     ELSE /\ assignments' = assignments \cup {req[p].pending[i] : i \in 1..Len(req[p].pending)}
          /\ resp' = [status_code |-> 200, op |-> "bulk_assign", user |-> req[p].user,
                         created |-> req[p].pending]
  /\ req' = [req EXCEPT ![p] = Idle]
  /\ UNCHANGED <<now, autoAssign, configs, cache, attempts, uuids>>

BulkRequests == {<<"SJT">>, <<"SJT", "sjt">>, <<"JDT", "xyz">>}

InitAssign ==
  /\ now = 0
  /\ autoAssign \in BOOLEAN
  /\ configs = PublishedConfigs
  /\ cache = [p \in Procs |-> EmptyDict]
  /\ assignments = {}
  /\ attempts = << >>
  /\ req = [p \in Procs |-> Idle]
  /\ resp = NoResponse
  /\ uuids = 0

NextAssign ==
  \E p \in Procs :
    \/ \E tt \in TestTypes : AvailabilityRead(p, "c1", tt)
    \/ AvailabilityCommit(p)
    \/ \E test_types \in BulkRequests : BulkAssignRead(p, "a1", "c1", test_types, 2)
    \/ BulkAssignCommit(p)
    \/ \E tt \in TestTypes : RemoveAssignment(p, "a1", "c1", tt)

SpecAssign == InitAssign /\ [][NextAssign]_vars

\* The stored assignments of (u, tt).
AssignmentsOf(u, tt) == {a \in assignments : a.user_id = u /\ a.test_type = tt}

\* C25 (checked under SpecAssign): in every reachable state there is at
\* most one assignment per (candidate, test type), whatever the
\* interleaving of bulk assignment (a request may name a test type twice),
\* auto-assignment inside get_availability and removal; in particular two
\* concurrent get_availability calls that both found none do not both
\* create one.
C25_OneAssignmentPerTest ==
  \A u \in Users, tt \in TestTypes : Cardinality(AssignmentsOf(u, tt)) <= 1

\* C25 witness: both processes found no SJT assignment for c1 and decided
\* to create one; p1's has been committed and p2's commit is still to come.
C25_Witness ==
  /\ req["p2"].op = "availability" /\ req["p2"].pc = "assign"
  /\ req["p2"].user = "c1" /\ req["p2"].test_type = "SJT"
  /\ \E a \in AssignmentsOf("c1", "SJT") : a.id = <<"p1", 0>>

\* C26 (checked under Spec): the assigned_question_count that
\* get_availability reports when can_start is true (the size of the
\* scenario-id restriction of a restricted SJT assignment, otherwise the
\* configuration's declared or default question count) is the length of
\* the question list that a start_attempt made in the same state serves.
C26_CountMatchesServed ==
  [][Len(attempts') = Len(attempts) + 1 =>
       \E p \in Procs :
         /\ req[p].op = "start" /\ req'[p] = Idle
         /\ req[p].availability.can_start
         /\ req[p].availability.assigned_question_count =
              Some(Len(attempts'[Len(attempts')].questions_snapshot))
         /\ Len(resp'.questions) = Len(attempts'[Len(attempts')].questions_snapshot)]_vars

(***************************************************************************)
(* SpecPublish: administrator a1 publishes and retires tenant t1's SJT    *)
(* configuration through two server processes; create_configuration is    *)
(* one action per group of database round trips.                          *)
(***************************************************************************)
\* Creates in flight that will still insert a row.
CreatesInFlight == Cardinality({p \in Procs : req[p].op = "create_configuration"})

\* create_configuration up to the lookup of the active row (lines 27-43).
CreateRead(p, admin, config_type, scope, config_data) ==
  /\ req[p] = Idle
  /\ Role(admin) # "candidate"
  /\ scope = "system" => Role(admin) = "superadmin"
  /\ Len(configs) + CreatesInFlight < MaxConfigRows
  /\ LET tenant_id == TenantOf(admin)
         old == {i \in 1..Len(configs) :
                   /\ configs[i].tenant_id = tenant_id
                   /\ configs[i].config_type = config_type
                   /\ configs[i].is_active}
         e == IF old = {} THEN 0 ELSE CHOOSE i \in old : \A j \in old : i <= j
     IN  req' = [req EXCEPT ![p] =
                   [op |-> "create_configuration", pc |-> "commit", user |-> admin,
                    tenant_id |-> tenant_id, config_type |-> config_type,
                    scope |-> scope, config_data |-> config_data, existing |-> e,
                    existing_version |-> IF e = 0 THEN 0 ELSE configs[e].version]]
  /\ UNCHANGED <<now, autoAssign, configs, cache, assignments, attempts, resp, uuids>>

\* create_configuration from the deactivation of the row it read to the
\* commit (lines 45-65): the UPDATE writes the values computed from the row
\* as it was read, the INSERT adds the new row.
CreateCommit(p) ==
  /\ req[p].op = "create_configuration" /\ req[p].pc = "commit"
  /\ LET r == req[p]
         e == r.existing
         retired == IF e = 0 THEN configs
                    ELSE [configs EXCEPT ![e].is_active = FALSE,
                                         ![e].version = r.existing_version + 1,
                                         ![e].updated_at = now]
         version == IF e = 0 THEN 1 ELSE r.existing_version + 2
         row == [Configuration(Len(configs) + 1, r.tenant_id, r.config_type, r.scope,
                               r.config_data, version) EXCEPT !.updated_at = now]
     IN  /\ configs' = Append(retired, row)
         /\ resp' = [status_code |-> 200, op |-> "create_configuration",
                        user |-> r.user, config |-> row]
  /\ req' = [req EXCEPT ![p] = Idle]
  /\ UNCHANGED <<now, autoAssign, cache, assignments, attempts, uuids>>

InitPublish ==
  /\ now = 0
  /\ autoAssign = FALSE
  /\ configs \in {<< >>, <<Configuration(1, "t1", "sjt", "tenant", SjtConfigA, 1)>>}
  /\ cache = [p \in Procs |-> EmptyDict]
  /\ assignments = {}
  /\ attempts = << >>
  /\ req = [p \in Procs |-> Idle]
  /\ resp = NoResponse
  /\ uuids = 0

NextPublish ==
  \/ \E p \in Procs :
       \/ \E config_data \in {SjtConfigA, SjtConfigB} :
            CreateRead(p, "a1", "sjt", "tenant", config_data)
       \/ CreateCommit(p)
       \/ \E id \in 1..MaxConfigRows : DeleteConfiguration(p, "a1", id)
  \/ Tick

SpecPublish == InitPublish /\ [][NextPublish]_vars

\* The active rows of (tenant_id, config_type).
ActiveRows(tenant_id, config_type) ==
  {i \in 1..Len(configs) : /\ configs[i].tenant_id = tenant_id
                           /\ configs[i].config_type = config_type
                           /\ configs[i].is_active}

\* C27 (checked under SpecPublish): in every reachable state there is at
\* most one active configuration per (tenant, config type), after any
\* interleaving of create_configuration and delete_configuration calls,
\* two concurrent creates for the same tenant and type included.
C27_OneActiveConfiguration ==
  \A tenant_id \in Tenants, config_type \in {"sjt", "jdt"} :
    Cardinality(ActiveRows(tenant_id, config_type)) <= 1

(***************************************************************************)
(* SpecKeys: candidate c1 starts one SJT attempt and submits base and     *)
(* follow-up answers on base indices 0 and 1 in any order, one request    *)
(* at a time, and completes the attempt.                                  *)
(***************************************************************************)
BaseIndices == {0, 1}

\* Request bodies: the answer to base question i, and a follow-up answer
\* on base question i (sent as question 2).
BaseAnswerTo(i) ==
  [question_index |-> i, answer_text |-> "t", is_follow_up |-> FALSE,
   base_question_index |-> Nothing, follow_up_sequence |-> Nothing]
FollowUpAnswerTo(i) ==
  [question_index |-> 2, answer_text |-> "t", is_follow_up |-> TRUE,
   base_question_index |-> Some(i), follow_up_sequence |-> Nothing]

NextKeys ==
  \/ StartCheck("p1", "c1", "SJT", Nothing)
  \/ StartSelect("p1")
  \/ StartInsert("p1")
  \/ \E i \in BaseIndices :
       \E payload \in {BaseAnswerTo(i), FollowUpAnswerTo(i)} :
         uuids < MaxAnswers /\ SubmitRead("p1", "c1", 1, payload)
  \/ SubmitCommit("p1")
  \/ CompleteRead("p1", "c1", 1, EmptyCompletion)
  \/ CompleteCommit("p1")

SpecKeys == InitLedger /\ [][NextKeys]_vars

\* The stored follow_up_counts of an attempt.
FollowCounts(attempt) == Get(attempt.attempt_metadata, "follow_up_counts", EmptyDict)

\* The step stores one answer of a successful submit_answer.
SubmitStored ==
  /\ resp'.op = "submit" /\ resp'.status_code = 200
  /\ \E p \in Procs : req[p].op = "submit" /\ req'[p] = Idle

C29_CompletedWithinLimit ==
  \A a \in assignments :
    Cardinality(AttemptsWithStatus(attempts, a.user_id, a.test_type, "completed"))
      <= a.max_attempts

\* The entry of key in p1's cache was written by the step.
EntryWritten(key) ==
  /\ key \in DOMAIN cache'["p1"]
  /\ key \notin DOMAIN cache["p1"] \/ cache'["p1"][key] # cache["p1"][key]

\* C30 (checked under SpecResolve): a lookup that answers "not configured"
\* leaves the cache as it was; every cache entry written holds an active
\* configuration row of the table; so when a (tenant, test type) key
\* resolves to nothing and has no unexpired cache entry, a configuration
\* created for it is what the next lookup returns.
C30_MissNotCached ==
  [][/\ (LookupStep /\ resp'.status_code = 200 /\ ~resp'.configured) => cache' = cache
     /\ \A tenant_id \in Tenants, tt \in TestTypes :
          LET key == _cache_key(tenant_id, tt)
          IN  /\ EntryWritten(key) =>
                   \E i \in 1..Len(configs) :
                     configs[i].is_active /\ cache'["p1"][key].config = configs[i]
              /\ (/\ resp'.op = "create_configuration" /\ resp' # resp
                  /\ resp'.config.tenant_id = tenant_id
                  /\ resp'.config.config_type = Lower(tt)
                  /\ ResolvedFromTable(tenant_id, tt) = Nothing
                  /\ ~CacheFresh(cache["p1"], key, now))
                 => Resolved(tenant_id, tt)' = Some(resp'.config)]_vars

\* C30 witness: the table was empty until time CONFIG_TTL_SECONDS, when a1
\* published t1's first configuration; c1's lookup at that same time is
\* answered from the new row.
C30_Witness ==
  /\ now = CONFIG_TTL_SECONDS /\ Len(configs) = 1
  /\ configs[1].updated_at = now /\ configs[1].is_active
  /\ resp.op = "availability" /\ resp.user = "c1" /\ resp.configured
  /\ _cache_key("t1", "SJT") \in DOMAIN cache["p1"]
  /\ cache["p1"][_cache_key("t1", "SJT")].config = configs[1]
  /\ cache["p1"][_cache_key("t1", "SJT")].expires_at = now + CONFIG_TTL_SECONDS

====
